---- MODULE Spec2Model ----
(***************************************************************************)
(* Yield-curve PCA analyst: the numerical engine (utils/math.ts) and the   *)
(* day-by-day backtest simulator (utils/backtester.ts).                    *)
(*                                                                         *)
(* Number representation.  The program computes in IEEE doubles.  Here     *)
(*   - a yield is an integer number of percent, or NaN (what Number()      *)
(*     gives for a missing or non-numeric cell);                           *)
(*   - a P&L in basis points is kept exactly, multiplied by PnLScale;      *)
(*   - the quantities of the PCA fit (means, covariances, loadings,        *)
(*     scores, residuals) are fixed-point numbers with FP units to 1;      *)
(*   - a z-score is fixed-point with ZScale units to 1.                    *)
(***************************************************************************)
EXTENDS Integers, Sequences, FiniteSets, TLC

(***************************************************************************)
(* Numbers                                                                 *)
(***************************************************************************)
\* Number(x) of a missing or non-numeric cell; every arithmetic operation on
\* it gives NaN again and every comparison with it is false.
NaN == -2000000000

IsNaN(x) == x = NaN

\* Fixed-point units of the PCA quantities, and of a z-score.
FP == 1000

ZScale == 100

\* Pick({e : x \in {v}}) is e with x bound to v: v is computed once, as an
\* assignment "const x = v" does.
Pick(S) == CHOOSE r \in S : TRUE

Abs(x) == IF x < 0 THEN -x ELSE x

\* a / b for b > 0, rounded to the nearest unit, a half away from zero: as
\* the program's arithmetic, the rounding of -a / b is minus that of a / b.
RDiv(a, b) == IF a >= 0 THEN (2 * a + b) \div (2 * b) ELSE -((2 * (-a) + b) \div (2 * b))

RECURSIVE SqrtFloor(_, _, _)
SqrtFloor(n, lo, hi) ==
    IF lo >= hi THEN lo
    ELSE Pick({IF mid * mid <= n THEN SqrtFloor(n, mid, hi)
                               ELSE SqrtFloor(n, lo, mid - 1) :
        mid \in {(lo + hi + 1) \div 2}})

\* Math.sqrt, to the nearest unit.
Sqrt(n) ==
    Pick({IF (r + 1) * (r + 1) - n < n - r * r THEN r + 1 ELSE r : r \in {SqrtFloor(n, 0, 46339)}})

\* A vector, and a matrix, with every entry computed (the loops of the program
\* run once).
EvalV(v) == Pick({SubSeq(w, 1, Len(w)) : w \in {v}})

Eval(m) == Pick({EvalV([a \in 1..Len(w) |-> EvalV(w[a])]) : w \in {m}})

RECURSIVE SumTo(_, _)
SumTo(s, k) == IF k = 0 THEN 0 ELSE s[k] + SumTo(s, k - 1)

SumSeq(s) == Pick({SumTo(w, Len(w)) : w \in {EvalV(s)}})

NAdd(a, b) == IF IsNaN(a) \/ IsNaN(b) THEN NaN ELSE a + b

NSub(a, b) == IF IsNaN(a) \/ IsNaN(b) THEN NaN ELSE a - b

NGt(a, b) == ~IsNaN(a) /\ ~IsNaN(b) /\ a > b

NLt(a, b) == ~IsNaN(a) /\ ~IsNaN(b) /\ a < b

NSumSeq(s) ==
    Pick({IF \E k \in 1..Len(w) : IsNaN(w[k]) THEN NaN ELSE SumTo(w, Len(w)) : w \in {EvalV(s)}})

\* Number(d[t]): the cell of observation d for tenor t.
Num(d, t) == IF t \in DOMAIN d.y THEN d.y[t] ELSE NaN

(***************************************************************************)
(* utils/math.ts                                                           *)
(***************************************************************************)
computeMeanVector(m) ==
    IF Len(m) = 0 THEN <<>>
    ELSE EvalV([j \in 1..Len(m[1]) |->
            RDiv(FP * SumSeq([r \in 1..Len(m) |-> m[r][j]]), Len(m))])

centerData(m, means) ==
    Eval([r \in 1..Len(m) |-> [j \in 1..Len(m[r]) |-> FP * m[r][j] - means[j]]])

computeCovarianceMatrix(centered) ==
    LET n == Len(centered)
        m == IF n > 0 THEN Len(centered[1]) ELSE 0
    IN  IF n < 2 \/ m = 0
        THEN Eval([a \in 1..m |-> [b \in 1..m |-> 0]])
        ELSE Eval([a \in 1..m |-> [b \in 1..m |->
                RDiv(SumSeq([k \in 1..n |-> centered[k][a] * centered[k][b]]),
                     (n - 1) * FP)]])

maxIter == 100

\* tol = 1e-8 is below the fixed-point resolution: one unit stands for it.
tol == 1

\* The pivot search (lines 60-70): the largest off-diagonal magnitude above
\* the diagonal and the first place, row by row, that holds it; p = q = 0
\* when all of them are 0.
OffDiag(n) == {pq \in (1..n) \X (1..n) : pq[1] < pq[2]}

PivotSearch(D) ==
    Pick({Pick({IF maxVal = 0 THEN [maxVal |-> 0, p |-> 0, q |-> 0]
        ELSE Pick({Pick({[maxVal |-> maxVal, p |-> pq[1], q |-> pq[2]] : pq \in {CHOOSE pq \in at :
                     \A o \in at : pq[1] < o[1] \/ (pq[1] = o[1] /\ pq[2] <= o[2])}}) :
        at \in {{pq \in OffDiag(Len(D)) : Abs(D[pq[1]][pq[2]]) = maxVal}}}) :
        maxVal \in {CHOOSE v \in mags : \A o \in mags : o <= v}}) :
        mags \in {{Abs(D[pq[1]][pq[2]]) : pq \in OffDiag(Len(D))} \cup {0}}})

\* cos and sin of theta = 0.5 * atan2(2 Dpq, Dpp - Dqq), by the half-angle
\* formulas: theta lies in (-pi/2, pi/2], so cos >= 0 and sin has Dpq's sign.
RotationCS(Dpp, Dqq, Dpq) ==
    Pick({Pick({Pick({[c |-> Sqrt(RDiv((FP + cos2) * FP, 2)),
         s |-> IF Dpq < 0 THEN -sabs ELSE sabs] :
        sabs \in {Sqrt(RDiv((FP - cos2) * FP, 2))}}) :
        cos2 \in {RDiv((Dpp - Dqq) * FP, h)}}) :
        h \in {Sqrt((Dpp - Dqq) * (Dpp - Dqq) + 4 * Dpq * Dpq)}})

\* Lines 82-96.
RotateD(D, p, q, c, s) ==
    LET Dpp == D[p][p]
        Dqq == D[q][q]
        Dpq == D[p][q]
        cc  == RDiv(c * c, FP)
        ss  == RDiv(s * s, FP)
        sc  == RDiv(s * c, FP)
        newP(a) == RDiv(c * D[a][p] - s * D[a][q], FP)
        newQ(a) == RDiv(s * D[a][p] + c * D[a][q], FP)
    IN  Eval([a \in 1..Len(D) |-> [b \in 1..Len(D) |->
            IF a = p /\ b = p THEN RDiv(cc * Dpp - 2 * sc * Dpq + ss * Dqq, FP)
            ELSE IF a = q /\ b = q THEN RDiv(ss * Dpp + 2 * sc * Dpq + cc * Dqq, FP)
            ELSE IF {a, b} = {p, q} THEN 0
            ELSE IF b = p THEN newP(a)
            ELSE IF a = p THEN newP(b)
            ELSE IF b = q THEN newQ(a)
            ELSE IF a = q THEN newQ(b)
            ELSE D[a][b]]])

\* A column update whose first line adds where line 101 subtracts.
RotateVSameSign(V, p, q, c, s) ==
    Eval([a \in 1..Len(V) |-> [b \in 1..Len(V) |->
        IF b = p THEN RDiv(c * V[a][p] + s * V[a][q], FP)
        ELSE IF b = q THEN RDiv(s * V[a][p] + c * V[a][q], FP)
        ELSE V[a][b]]])

\* Lines 98-103.
RotateV(V, p, q, c, s) ==
    Eval([a \in 1..Len(V) |-> [b \in 1..Len(V) |->
        IF b = p THEN RDiv(c * V[a][p] - s * V[a][q], FP)
        ELSE IF b = q THEN RDiv(s * V[a][p] + c * V[a][q], FP)
        ELSE V[a][b]]])

\* One pass of the rotation loop's body (lines 60-103).  st holds D, V, the
\* number of rotations made, and done once the break at line 72 was taken.
JacobiStep(st) ==
    Pick({IF pv.maxVal < tol THEN [st EXCEPT !.done = TRUE]
          ELSE Pick({[D |-> RotateD(st.D, pv.p, pv.q, cs.c, cs.s),
                      V |-> RotateV(st.V, pv.p, pv.q, cs.c, cs.s),
                      rotations |-> st.rotations + 1,
                      done |-> FALSE] :
                     cs \in {RotationCS(st.D[pv.p][pv.p], st.D[pv.q][pv.q],
                                        st.D[pv.p][pv.q])}}) :
          pv \in {PivotSearch(st.D)}})

\* for (let iter = 0; iter < maxIter; iter++): the body n times, or until the
\* break.  The n passes are made as two halves, one after the other.
RECURSIVE JacobiLoop(_, _)
JacobiLoop(st, n) ==
    IF n = 0 \/ st.done THEN st
    ELSE IF n = 1 THEN JacobiStep(st)
    ELSE Pick({JacobiLoop(half, n - (n \div 2)) : half \in {JacobiLoop(st, n \div 2)}})

\* indices.sort((a, b) => eigenvalues[b] - eigenvalues[a]): descending, stable.
SortedIndices(ev) ==
    LET n == Len(ev)
        rank(a) == 1 + Cardinality({b \in 1..n :
                        ev[b] > ev[a] \/ (ev[b] = ev[a] /\ b < a)})
    IN  EvalV([k \in 1..n |-> CHOOSE a \in 1..n : rank(a) = k])

Identity(n) == Eval([a \in 1..n |-> [b \in 1..n |-> IF a = b THEN FP ELSE 0]])

\* A rotation loop that tests iter <= maxIter.
JacobiFinalOnePassMore(matrix) ==
    JacobiLoop([D |-> matrix, V |-> Identity(Len(matrix)), rotations |-> 0, done |-> FALSE],
               maxIter + 1)

\* The state the rotation loop of jacobiEigen leaves (lines 54-104).
JacobiFinal(matrix) ==
    JacobiLoop([D |-> matrix, V |-> Identity(Len(matrix)), rotations |-> 0, done |-> FALSE],
               maxIter)

\* A decomposition that sorts the eigenvalues and leaves the columns of V in
\* the order the rotations left them.
jacobiEigenVectorsUnsorted(matrix) ==
    IF Len(matrix) = 0 THEN [eigenvalues |-> <<>>, eigenvectors |-> <<>>]
    ELSE Pick({Pick({Pick({Pick({[eigenvalues  |-> EvalV([k \in 1..n |-> eigenvalues[indices[k]]]),
              eigenvectors |-> Eval([k \in 1..n |-> [r \in 1..n |-> fin.V[r][k]]])] :
        indices \in {SortedIndices(eigenvalues)}}) :
        eigenvalues \in {EvalV([a \in 1..n |-> fin.D[a][a]])}}) :
        fin \in {JacobiFinal(matrix)}}) :
        n \in {Len(matrix)}})

jacobiEigen(matrix) ==
    IF Len(matrix) = 0 THEN [eigenvalues |-> <<>>, eigenvectors |-> <<>>]
    ELSE Pick({Pick({Pick({Pick({[eigenvalues  |-> EvalV([k \in 1..n |-> eigenvalues[indices[k]]]),
              eigenvectors |-> Eval([k \in 1..n |-> [r \in 1..n |-> fin.V[r][indices[k]]]])] :
        indices \in {SortedIndices(eigenvalues)}}) :
        eigenvalues \in {EvalV([a \in 1..n |-> fin.D[a][a]])}}) :
        fin \in {JacobiFinal(matrix)}}) :
        n \in {Len(matrix)}})

\* An alignment whose second rule takes the slope as first minus last.
alignEigenvectorsSlopeReversed(eigenvectors) ==
    Eval([k \in 1..Len(eigenvectors) |->
        LET vec == eigenvectors[k]
            len == Len(vec)
            neg == IF k = 1 THEN SumSeq(vec) < 0
                   ELSE IF k = 2 THEN len > 0 /\ vec[1] - vec[len] < 0
                   ELSE IF k = 3 THEN len > 0 /\ 2 * vec[(len \div 2) + 1] < vec[1] + vec[len]
                   ELSE FALSE
        IN  IF neg THEN [j \in 1..len |-> -vec[j]] ELSE vec])

\* An alignment whose first rule also flips a component whose loadings sum
\* to zero.
alignEigenvectorsFlipOnZero(eigenvectors) ==
    Eval([k \in 1..Len(eigenvectors) |->
        LET vec == eigenvectors[k]
            len == Len(vec)
            neg == IF k = 1 THEN SumSeq(vec) <= 0
                   ELSE IF k = 2 THEN len > 0 /\ vec[len] - vec[1] < 0
                   ELSE IF k = 3 THEN len > 0 /\ 2 * vec[(len \div 2) + 1] < vec[1] + vec[len]
                   ELSE FALSE
        IN  IF neg THEN [j \in 1..len |-> -vec[j]] ELSE vec])

\* Lines 181-200; vec[midIdx] < (vec[0] + vec[last]) / 2 is compared doubled.
alignEigenvectors(eigenvectors) ==
    Eval([k \in 1..Len(eigenvectors) |->
        LET vec == eigenvectors[k]
            len == Len(vec)
            neg == IF k = 1 THEN SumSeq(vec) < 0
                   ELSE IF k = 2 THEN len > 0 /\ vec[len] - vec[1] < 0
                   ELSE IF k = 3 THEN len > 0 /\ 2 * vec[(len \div 2) + 1] < vec[1] + vec[len]
                   ELSE FALSE
        IN  IF neg THEN [j \in 1..len |-> -vec[j]] ELSE vec])

\* The NaN-guarded matrix of the observations (isNaN(val) ? 0 : val).
SafeMatrix(rawDateData, tnrs) ==
    Eval([r \in 1..Len(rawDateData) |-> [j \in 1..Len(tnrs) |->
        IF IsNaN(Num(rawDateData[r], tnrs[j])) THEN 0 ELSE Num(rawDateData[r], tnrs[j])]])

\* Explained variance in percent, as the rolling fit has it.
ExplainedOfInPercent(eigenvalues) ==
    Pick({EvalV([k \in 1..Len(eigenvalues) |->
            IF totalVariance > 0 THEN RDiv(eigenvalues[k] * 100 * FP, totalVariance) ELSE 0]) :
        totalVariance \in {SumSeq(eigenvalues)}})

\* totalVariance > 1e-12 ? eigenvalues.map(v => v / totalVariance) : zeros
ExplainedOf(eigenvalues) ==
    Pick({EvalV([k \in 1..Len(eigenvalues) |->
            IF totalVariance > 0 THEN RDiv(eigenvalues[k] * FP, totalVariance) ELSE 0]) :
        totalVariance \in {SumSeq(eigenvalues)}})

\* Scores that read the loading of tenor j on component k at [j][k].
ScoresOfByColumn(centered, aligned) ==
    Eval([r \in 1..Len(centered) |-> [k \in 1..Len(aligned) |->
        RDiv(SumSeq([j \in 1..Len(centered[r]) |->
                        centered[r][j] * (IF j <= Len(aligned) /\ k <= Len(aligned[j])
                                          THEN aligned[j][k] ELSE 0)]), FP)]])

\* Lines 156-160.
ScoresOf(centered, aligned) ==
    Eval([r \in 1..Len(centered) |-> [k \in 1..Len(aligned) |->
        RDiv(SumSeq([j \in 1..Len(centered[r]) |-> centered[r][j] * aligned[k][j]]), FP)]])

performPCA(rawDateData, tnrs) ==
    IF Len(rawDateData) = 0
    THEN [eigenvalues |-> <<>>, eigenvectors |-> <<>>, explainedVariance |-> <<>>,
          cumulativeVariance |-> <<>>, scores |-> <<>>, meanVector |-> <<>>,
          tenors |-> tnrs]
    ELSE Pick({Pick({Pick({Pick({Pick({Pick({Pick({[eigenvalues        |-> eig.eigenvalues,
              eigenvectors       |-> aligned,
              explainedVariance  |-> explained,
              cumulativeVariance |-> EvalV([k \in 1..Len(explained) |-> SumTo(explained, k)]),
              scores             |-> ScoresOf(centered, aligned),
              meanVector         |-> meanVector,
              tenors             |-> tnrs] :
        explained \in {ExplainedOf(eig.eigenvalues)}}) :
        aligned \in {alignEigenvectors(eig.eigenvectors)}}) :
        eig \in {jacobiEigen(cov)}}) :
        cov \in {computeCovarianceMatrix(centered)}}) :
        centered \in {centerData(matrix, meanVector)}}) :
        meanVector \in {computeMeanVector(matrix)}}) :
        matrix \in {SafeMatrix(rawDateData, tnrs)}})

\* explained[k] || 0, || [] : the fallback for a component that is not there.
OrZero(v, k) == IF k <= Len(v) THEN v[k] ELSE 0

OrEmpty(v, k) == IF k <= Len(v) THEN v[k] ELSE <<>>

\* A loop body whose window runs through the observation of index idx.
RollingEntryThroughToday(fullData, matrix, idx, wSize) ==
    Pick({ Pick({ [date |-> fullData[idx + 1].date,
                   PC1  |-> OrZero(explained, 1),
                   PC2  |-> OrZero(explained, 2),
                   PC3  |-> OrZero(explained, 3)] :
                  explained \in {Pick({ EvalV([k \in 1..Len(eigenvalues) |->
                                      IF totalVariance > 0
                                      THEN RDiv(eigenvalues[k] * 100 * FP, totalVariance)
                                      ELSE 0]) :
                                   totalVariance \in {SumSeq(eigenvalues)} })} }) :
           eigenvalues \in {Pick({ jacobiEigen(computeCovarianceMatrix(
                                       centerData(windowMatrix,
                                                  computeMeanVector(windowMatrix)))).eigenvalues :
                                   windowMatrix \in {SubSeq(matrix, idx - wSize + 2, idx + 1)} })} })

\* The body of performRollingPCA's loop for index idx (lines 220-238); the
\* percentages are in FP units.
RollingEntry(fullData, matrix, idx, wSize) ==
    Pick({ Pick({ [date |-> fullData[idx + 1].date,
                   PC1  |-> OrZero(explained, 1),
                   PC2  |-> OrZero(explained, 2),
                   PC3  |-> OrZero(explained, 3)] :
                  explained \in {Pick({ EvalV([k \in 1..Len(eigenvalues) |->
                                      IF totalVariance > 0
                                      THEN RDiv(eigenvalues[k] * 100 * FP, totalVariance)
                                      ELSE 0]) :
                                   totalVariance \in {SumSeq(eigenvalues)} })} }) :
           eigenvalues \in {Pick({ jacobiEigen(computeCovarianceMatrix(
                                       centerData(windowMatrix,
                                                  computeMeanVector(windowMatrix)))).eigenvalues :
                                   windowMatrix \in {SubSeq(matrix, idx - wSize + 1, idx)} })} })

performRollingPCA(fullData, tnrs, wSize) ==
    IF Len(fullData) < wSize THEN <<>>
    ELSE Pick({ EvalV([k \in 1..Len(fullData) - wSize |->
                    RollingEntry(fullData, matrix, wSize + k - 1, wSize)]) :
                matrix \in {SafeMatrix(fullData, tnrs)} })

\* The body of calculateRollingLoadings's loop for index idx (lines 268-282).
LoadingsEntry(fullData, matrix, idx, wSize) ==
    Pick({ [date |-> fullData[idx + 1].date,
            pc1  |-> OrEmpty(aligned, 1),
            pc2  |-> OrEmpty(aligned, 2),
            pc3  |-> OrEmpty(aligned, 3)] :
           aligned \in {Pick({ alignEigenvectors(jacobiEigen(computeCovarianceMatrix(
                                   centerData(windowMatrix,
                                              computeMeanVector(windowMatrix)))).eigenvectors) :
                               windowMatrix \in {SubSeq(matrix, idx - wSize + 1, idx)} })} })

calculateRollingLoadings(fullData, tnrs, wSize) ==
    IF Len(fullData) < wSize THEN <<>>
    ELSE Pick({ EvalV([k \in 1..Len(fullData) - wSize |->
                    LoadingsEntry(fullData, matrix, wSize + k - 1, wSize)]) :
                matrix \in {SafeMatrix(fullData, tnrs)} })

(***************************************************************************)
(* utils/backtester.ts                                                     *)
(***************************************************************************)
\* DURATION_MAP and CONVEXITY_MAP, in hundredths (8.9 years is 890).
DURATION_MAP ==
    [t \in {"1M", "3M", "6M", "1Y", "2Y", "3Y", "5Y", "7Y", "10Y", "20Y", "30Y"} |->
        CASE t = "1M" -> 8      [] t = "3M" -> 25    [] t = "6M" -> 50
          [] t = "1Y" -> 98     [] t = "2Y" -> 195   [] t = "3Y" -> 285
          [] t = "5Y" -> 455    [] t = "7Y" -> 640   [] t = "10Y" -> 890
          [] t = "20Y" -> 1650  [] t = "30Y" -> 1950]

CONVEXITY_MAP ==
    [t \in {"1M", "3M", "6M", "1Y", "2Y", "3Y", "5Y", "7Y", "10Y", "20Y", "30Y"} |->
        CASE t = "1M" -> 0      [] t = "3M" -> 0     [] t = "6M" -> 0
          [] t = "1Y" -> 2      [] t = "2Y" -> 5     [] t = "3Y" -> 12
          [] t = "5Y" -> 35     [] t = "7Y" -> 65    [] t = "10Y" -> 110
          [] t = "20Y" -> 380   [] t = "30Y" -> 580]

\* DURATION_MAP[tenor] || 5 and CONVEXITY_MAP[tenor] || 0
DurationOf(tenor) ==
    IF tenor \in DOMAIN DURATION_MAP /\ DURATION_MAP[tenor] # 0
    THEN DURATION_MAP[tenor] ELSE 500

ConvexityOf(tenor) ==
    IF tenor \in DOMAIN CONVEXITY_MAP THEN CONVEXITY_MAP[tenor] ELSE 0

\* A P&L of x basis points is the integer PnLScale * x.
PnLScale == 1800

\* ((-duration * dY/100) + 0.5 * convexity * (dY/100)^2) * 10000 * direction
\* for a yield change of dY percent.
PricePnL(tenor, yieldChange, direction) ==
    IF IsNaN(yieldChange) THEN NaN
    ELSE ((PnLScale \div 200) * ConvexityOf(tenor) * yieldChange * yieldChange
          - PnLScale * DurationOf(tenor) * yieldChange) * direction

\* (lastYield / 100) / 360 * 10000 * direction
CarryPnL(lastYield, direction) ==
    IF IsNaN(lastYield) THEN NaN ELSE ((PnLScale * 100) \div 360) * lastYield * direction

VARIABLES
    data,             \* the observations handed to runPCABacktest
    tenors,           \* the ordered tenor list
    windowSize,
    zScoreThreshold,  \* in ZScale units
    pc,               \* "start", "loop", "done", "NotEnoughData", "TypeError";
                      \* "performRollingPCA", "calculateRollingLoadings" after those calls
    i,                \* the day loop's index (0-based, as in the program)
    trades,
    equityCurve,
    dates,
    activePositions,  \* the Map: a function on the tenors that hold a position
    pca,              \* the fit of the last simulated day
    zScores,          \* tenor -> z-score of the last simulated day
    dailyMarks,       \* per simulated day: tenor -> the price and carry P&L marked
    result,           \* the value returned
    arg               \* the matrix of a direct call of jacobiEigen or alignEigenvectors

vars == <<data, tenors, windowSize, zScoreThreshold, pc, i, trades, equityCurve,
          dates, activePositions, pca, zScores, dailyMarks, result, arg>>

inputs == <<data, tenors, windowSize, zScoreThreshold, arg>>

(***************************************************************************)
(* Inputs                                                                  *)
(***************************************************************************)
\* The number of observations after the first five.
MaxDays == 3

Columns == <<"3M", "2Y", "10Y", "30Y">>

Observation(k, cells) ==
    [date |-> 100 + k,
     y    |-> [t \in {Columns[c] : c \in 1..Len(Columns)} |->
                 cells[CHOOSE c \in 1..Len(Columns) : Columns[c] = t]]]

BaseRows == << <<2, 3, 1, 2>>, <<3, 3, 1, 2>>, <<2, 3, 2, 3>>, <<3, 4, 3, 4>>, <<4, 1, 1, 3>> >>

LaterRows == { <<4, 3, 4, 2>>, <<3, 1, 3, 2>>, <<4, 1, 2, 1>>, <<4, 2, 1, NaN>> }

\* A series whose observations 2..6 leave the 3M tenor uncorrelated with the
\* other three: the fit of that window reproduces its 3M column exactly.
UncorrelatedRows ==
    << <<1, 1, 2, 2>>, <<2, 1, 1, 2>>, <<3, 3, 4, 4>>, <<4, 1, 1, 2>>, <<3, 2, 1, 3>>,
       <<3, 3, 3, 4>>, <<1, 1, 4, 1>> >>

\* A series on which, with a window of five, only the 3M tenor trades: it is
\* bought on the sixth observation and closed on the eighth.
ShortEndRows ==
    << <<3, 1, 2, 2>>, <<1, 3, 4, 2>>, <<3, 3, 4, 2>>, <<1, 3, 3, 2>>, <<1, 1, 2, 2>>,
       <<3, 3, 1, 1>>, <<4, 4, 2, 3>>, <<1, 2, 2, 3>> >>

\* A series whose dates are not in ascending order: 103, 106, 101, 104, ...
UnsortedSeries ==
    [k \in 1..Len(BaseRows) + 2 |->
        [Observation(k, IF k <= Len(BaseRows) THEN BaseRows[k]
                        ELSE IF k = Len(BaseRows) + 1 THEN <<4, 3, 4, 2>> ELSE <<3, 1, 3, 2>>)
            EXCEPT !.date = 100 + ((3 * k) % 8)]]

DataSets ==
    { [k \in 1..Len(BaseRows) + Len(tail) |->
          Observation(k, IF k <= Len(BaseRows) THEN BaseRows[k]
                                               ELSE tail[k - Len(BaseRows)])] :
      tail \in UNION { [1..d -> LaterRows] : d \in 0..MaxDays } }
    \cup { [k \in 1..Len(UncorrelatedRows) |-> Observation(k, UncorrelatedRows[k])] }
    \cup { UnsortedSeries }
    \cup { [k \in 1..Len(ShortEndRows) |-> Observation(k, ShortEndRows[k])] }

TenorLists == { <<"3M", "2Y", "10Y", "30Y">>, <<"2Y", "10Y">>, <<"30Y">> }

WindowSizes == {1, 5, 7}

Thresholds == {150}

EmptyMap == [t \in {} |-> 0]

Init ==
    /\ data \in DataSets
    /\ tenors \in TenorLists
    /\ windowSize \in WindowSizes
    /\ zScoreThreshold \in Thresholds
    /\ pc = "start"
    /\ i = 0
    /\ trades = <<>>
    /\ equityCurve = <<>>
    /\ dates = <<>>
    /\ activePositions = EmptyMap
    /\ pca = performPCA(<<>>, <<>>)
    /\ zScores = EmptyMap
    /\ dailyMarks = <<>>
    /\ result = EmptyMap
    /\ arg = <<>>

(***************************************************************************)
(* runPCABacktest                                                          *)
(***************************************************************************)
\* Number(d[t]) in fixed-point units.
NumFP(d, t) == IF IsNaN(Num(d, t)) THEN NaN ELSE FP * Num(d, t)

\* eigenvectors[k][idx] for some k < 3 reads a property of undefined.
ReadsUndefined(fit, tnrs) == Len(tnrs) > 0 /\ Len(fit.eigenvectors) < 3

\* A residual whose model yield adds the score of each component without
\* the tenor's loading on it.
ResidualOfWithoutLoading(fit, today, tnrs, tIdx) ==
    LET n == Len(tnrs)
        centeredRow == EvalV([idx \in 1..n |-> NSub(NumFP(today, tnrs[idx]), fit.meanVector[idx])])
        scoreK(k) ==
            IF \E idx \in 1..n : IsNaN(centeredRow[idx]) THEN NaN
            ELSE RDiv(SumSeq([idx \in 1..n |-> centeredRow[idx] * fit.eigenvectors[k][idx]]), FP)
        modelYield == NSumSeq(<<fit.meanVector[tIdx], scoreK(1), scoreK(2), scoreK(3)>>)
    IN  NSub(NumFP(today, tnrs[tIdx]), modelYield)

\* actualYield - modelYield (lines 126-135)
ResidualOf(fit, today, tnrs, tIdx) ==
    LET n == Len(tnrs)
        centeredRow == EvalV([idx \in 1..n |-> NSub(NumFP(today, tnrs[idx]), fit.meanVector[idx])])
        scoreK(k) ==
            IF \E idx \in 1..n : IsNaN(centeredRow[idx]) THEN NaN
            ELSE RDiv(SumSeq([idx \in 1..n |-> centeredRow[idx] * fit.eigenvectors[k][idx]]), FP)
        term(k) ==
            IF IsNaN(scoreK(k)) THEN NaN ELSE RDiv(scoreK(k) * fit.eigenvectors[k][tIdx], FP)
        modelYield == NSumSeq(<<fit.meanVector[tIdx], term(1), term(2), term(3)>>)
    IN  NSub(NumFP(today, tnrs[tIdx]), modelYield)

\* Math.sqrt(sumSqRes / windowSize) (lines 138-146)
StdDevOf(fit, windowData, tnrs, tIdx, wSize) ==
    LET wModel(w) ==
            fit.meanVector[tIdx]
            + SumSeq([k \in 1..3 |-> RDiv(fit.scores[w][k] * fit.eigenvectors[k][tIdx], FP)])
        wRes(w) == NSub(NumFP(windowData[w], tnrs[tIdx]), wModel(w))
        sumSqRes ==
            NSumSeq([w \in 1..Len(windowData) |->
                        IF IsNaN(wRes(w)) THEN NaN ELSE wRes(w) * wRes(w)])
    IN  IF IsNaN(sumSqRes) THEN NaN ELSE Sqrt(RDiv(sumSqRes, wSize))

\* A z-score without the guard on stdDev: residual / 0 is Infinity, -Infinity
\* or, for 0 / 0, NaN.
ZScoreOfUnguarded(fit, windowData, today, tnrs, tIdx, wSize) ==
    Pick({IF IsNaN(residual) \/ IsNaN(stdDev) THEN NaN
          ELSE IF stdDev = 0
               THEN (IF residual = 0 THEN NaN
                     ELSE IF residual > 0 THEN 2100000000 ELSE -2100000000)
          ELSE IF residual >= 0 THEN RDiv(residual * ZScale, stdDev)
          ELSE -RDiv((-residual) * ZScale, stdDev) :
          residual \in {ResidualOf(fit, today, tnrs, tIdx)},
          stdDev \in {StdDevOf(fit, windowData, tnrs, tIdx, wSize)}})

\* stdDev === 0 ? 0 : residual / stdDev
ZScoreOf(fit, windowData, today, tnrs, tIdx, wSize) ==
    Pick({IF stdDev = 0 THEN 0
          ELSE IF IsNaN(residual) \/ IsNaN(stdDev) THEN NaN
          ELSE IF residual >= 0 THEN RDiv(residual * ZScale, stdDev)
          ELSE -RDiv((-residual) * ZScale, stdDev) :
          residual \in {ResidualOf(fit, today, tnrs, tIdx)},
          stdDev \in {StdDevOf(fit, windowData, tnrs, tIdx, wSize)}})

\* Mark-to-market accruing the carry on today's yield instead of the yield at
\* the last mark.
MarkToMarketCarryOnToday(pos, tenor, today) ==
    LET currentYield == Num(today, tenor)
        yieldChange  == NSub(currentYield, pos.lastYield)
        dailyPricePnL == PricePnL(tenor, yieldChange, pos.direction)
        dailyCarry    == CarryPnL(currentYield, pos.direction)
    IN  [pos   |-> [pos EXCEPT !.accumulatedCarry = NAdd(@, dailyCarry),
                               !.lastYield = currentYield],
         price |-> dailyPricePnL,
         carry |-> dailyCarry]

\* Mark-to-market that takes the yield change from the entry yield instead of
\* the yield at the last mark.
MarkToMarketFromEntry(pos, tenor, today) ==
    LET currentYield == Num(today, tenor)
        yieldChange  == NSub(currentYield, pos.entryYield)
        dailyPricePnL == PricePnL(tenor, yieldChange, pos.direction)
        dailyCarry    == CarryPnL(pos.lastYield, pos.direction)
    IN  [pos   |-> [pos EXCEPT !.accumulatedCarry = NAdd(@, dailyCarry),
                               !.lastYield = currentYield],
         price |-> dailyPricePnL,
         carry |-> dailyCarry]

\* Step 1 of a day, for one open position (lines 82-115).
MarkToMarket(pos, tenor, today) ==
    LET currentYield == Num(today, tenor)
        yieldChange  == NSub(currentYield, pos.lastYield)
        dailyPricePnL == PricePnL(tenor, yieldChange, pos.direction)
        dailyCarry    == CarryPnL(pos.lastYield, pos.direction)
    IN  [pos   |-> [pos EXCEPT !.accumulatedCarry = NAdd(@, dailyCarry),
                               !.lastYield = currentYield],
         price |-> dailyPricePnL,
         carry |-> dailyCarry]

MapSet(m, key, val) == [t \in DOMAIN m \cup {key} |-> IF t = key THEN val ELSE m[t]]

MapDelete(m, key) == [t \in DOMAIN m \ {key} |-> m[t]]

OpenPosition(actualYield, idx, date, direction) ==
    [entryYield |-> actualYield, entryDateIndex |-> idx, entryDate |-> date,
     direction |-> direction, accumulatedCarry |-> 0, lastYield |-> actualYield]

OpenTrade(date, tenor, type, actualYield) ==
    [date |-> date, entryDate |-> date, tenor |-> tenor, type |-> type,
     entryYield |-> actualYield]

CloseTrade(existingPos, tenor, today, actualYield, idx) ==
    LET totalYieldChange == NSub(actualYield, existingPos.entryYield)
        totalPricePnL == PricePnL(tenor, totalYieldChange, existingPos.direction)
        totalCarryPnL == existingPos.accumulatedCarry
    IN  [date |-> today.date, entryDate |-> existingPos.entryDate,
         exitDate |-> today.date, tenor |-> tenor, type |-> "CLOSE",
         entryYield |-> existingPos.entryYield, exitYield |-> actualYield,
         pricePnL |-> totalPricePnL, carryPnL |-> totalCarryPnL,
         totalPnL |-> NAdd(totalPricePnL, totalCarryPnL),
         daysHeld |-> idx - existingPos.entryDateIndex]

\* Trade logic that enters on the sign of the z-score, whatever the threshold.
TradeLogicEnterOnSign(st, tenor, zScore, today, idx, threshold) ==
    LET actualYield == Num(today, tenor)
    IN  IF tenor \notin DOMAIN st.positions
        THEN IF NGt(zScore, 0)
             THEN [positions |-> MapSet(st.positions, tenor,
                                        OpenPosition(actualYield, idx, today.date, 1)),
                   trades |-> Append(st.trades, OpenTrade(today.date, tenor, "BUY", actualYield))]
             ELSE IF NLt(zScore, 0)
             THEN [positions |-> MapSet(st.positions, tenor,
                                        OpenPosition(actualYield, idx, today.date, -1)),
                   trades |-> Append(st.trades, OpenTrade(today.date, tenor, "SELL", actualYield))]
             ELSE st
        ELSE LET existingPos == st.positions[tenor]
                 isLong == existingPos.direction = 1
             IN  IF (isLong /\ NLt(zScore, 0)) \/ (~isLong /\ NGt(zScore, 0))
                 THEN [positions |-> MapDelete(st.positions, tenor),
                       trades |-> Append(st.trades,
                                         CloseTrade(existingPos, tenor, today, actualYield, idx))]
                 ELSE st

\* Trade logic that exits when the z-score is back inside the entry band
\* instead of when it crosses zero.
TradeLogicExitInsideBand(st, tenor, zScore, today, idx, threshold) ==
    LET actualYield == Num(today, tenor)
    IN  IF tenor \notin DOMAIN st.positions
        THEN IF NGt(zScore, threshold)
             THEN [positions |-> MapSet(st.positions, tenor,
                                        OpenPosition(actualYield, idx, today.date, 1)),
                   trades |-> Append(st.trades, OpenTrade(today.date, tenor, "BUY", actualYield))]
             ELSE IF NLt(zScore, -threshold)
             THEN [positions |-> MapSet(st.positions, tenor,
                                        OpenPosition(actualYield, idx, today.date, -1)),
                   trades |-> Append(st.trades, OpenTrade(today.date, tenor, "SELL", actualYield))]
             ELSE st
        ELSE LET existingPos == st.positions[tenor]
                 isLong == existingPos.direction = 1
             IN  IF (isLong /\ NLt(zScore, threshold)) \/ (~isLong /\ NGt(zScore, -threshold))
                 THEN [positions |-> MapDelete(st.positions, tenor),
                       trades |-> Append(st.trades,
                                         CloseTrade(existingPos, tenor, today, actualYield, idx))]
                 ELSE st

\* Trade logic that, after an exit, goes on to the entry rule on the same
\* day.
TradeLogicReversing(st, tenor, zScore, today, idx, threshold) ==
    LET actualYield == Num(today, tenor)
        closed == IF tenor \notin DOMAIN st.positions THEN st
                  ELSE LET existingPos == st.positions[tenor]
                           isLong == existingPos.direction = 1
                       IN  IF (isLong /\ NLt(zScore, 0)) \/ (~isLong /\ NGt(zScore, 0))
                           THEN [positions |-> MapDelete(st.positions, tenor),
                                 trades |-> Append(st.trades,
                                     CloseTrade(existingPos, tenor, today, actualYield, idx))]
                           ELSE st
    IN  IF tenor \notin DOMAIN closed.positions
        THEN IF NGt(zScore, threshold)
             THEN [positions |-> MapSet(closed.positions, tenor,
                                        OpenPosition(actualYield, idx, today.date, 1)),
                   trades |-> Append(closed.trades,
                                     OpenTrade(today.date, tenor, "BUY", actualYield))]
             ELSE IF NLt(zScore, -threshold)
             THEN [positions |-> MapSet(closed.positions, tenor,
                                        OpenPosition(actualYield, idx, today.date, -1)),
                   trades |-> Append(closed.trades,
                                     OpenTrade(today.date, tenor, "SELL", actualYield))]
             ELSE closed
        ELSE closed

\* Trade logic that opens again, in the direction held, when the z-score of a
\* held tenor is beyond the threshold and no exit fires.
TradeLogicAddingToPosition(st, tenor, zScore, today, idx, threshold) ==
    LET actualYield == Num(today, tenor)
    IN  IF tenor \notin DOMAIN st.positions
        THEN IF NGt(zScore, threshold)
             THEN [positions |-> MapSet(st.positions, tenor,
                                        OpenPosition(actualYield, idx, today.date, 1)),
                   trades |-> Append(st.trades, OpenTrade(today.date, tenor, "BUY", actualYield))]
             ELSE IF NLt(zScore, -threshold)
             THEN [positions |-> MapSet(st.positions, tenor,
                                        OpenPosition(actualYield, idx, today.date, -1)),
                   trades |-> Append(st.trades, OpenTrade(today.date, tenor, "SELL", actualYield))]
             ELSE st
        ELSE LET existingPos == st.positions[tenor]
                 isLong == existingPos.direction = 1
             IN  IF (isLong /\ NLt(zScore, 0)) \/ (~isLong /\ NGt(zScore, 0))
                 THEN [positions |-> MapDelete(st.positions, tenor),
                       trades |-> Append(st.trades,
                                         CloseTrade(existingPos, tenor, today, actualYield, idx))]
                 ELSE IF NGt(zScore, threshold) \/ NLt(zScore, -threshold)
                 THEN [positions |-> MapSet(st.positions, tenor,
                                        OpenPosition(actualYield, idx, today.date,
                                                     existingPos.direction)),
                       trades |-> Append(st.trades,
                                         OpenTrade(today.date, tenor,
                                                   IF isLong THEN "BUY" ELSE "SELL", actualYield))]
                 ELSE st

\* Trade logic that, on an exit, overwrites the record that opened the
\* position with the CLOSE record instead of appending it.
TradeLogicClosingInPlace(st, tenor, zScore, today, idx, threshold) ==
    LET actualYield == Num(today, tenor)
    IN  IF tenor \notin DOMAIN st.positions
        THEN IF NGt(zScore, threshold)
             THEN [positions |-> MapSet(st.positions, tenor,
                                        OpenPosition(actualYield, idx, today.date, 1)),
                   trades |-> Append(st.trades, OpenTrade(today.date, tenor, "BUY", actualYield))]
             ELSE IF NLt(zScore, -threshold)
             THEN [positions |-> MapSet(st.positions, tenor,
                                        OpenPosition(actualYield, idx, today.date, -1)),
                   trades |-> Append(st.trades, OpenTrade(today.date, tenor, "SELL", actualYield))]
             ELSE st
        ELSE LET existingPos == st.positions[tenor]
                 isLong == existingPos.direction = 1
             IN  IF (isLong /\ NLt(zScore, 0)) \/ (~isLong /\ NGt(zScore, 0))
                 THEN [positions |-> MapDelete(st.positions, tenor),
                       trades |-> [n \in 1..Len(st.trades) |->
                                     IF /\ st.trades[n].type \in {"BUY", "SELL"}
                                        /\ st.trades[n].tenor = tenor
                                        /\ st.trades[n].date = existingPos.entryDate
                                     THEN CloseTrade(existingPos, tenor, today, actualYield, idx)
                                     ELSE st.trades[n]]]
                 ELSE st

\* Step 3 of a day, for one tenor (lines 150-225); st holds the Map and the log.
TradeLogic(st, tenor, zScore, today, idx, threshold) ==
    LET actualYield == Num(today, tenor)
    IN  IF tenor \notin DOMAIN st.positions
        THEN IF NGt(zScore, threshold)
             THEN [positions |-> MapSet(st.positions, tenor,
                                        OpenPosition(actualYield, idx, today.date, 1)),
                   trades |-> Append(st.trades, OpenTrade(today.date, tenor, "BUY", actualYield))]
             ELSE IF NLt(zScore, -threshold)
             THEN [positions |-> MapSet(st.positions, tenor,
                                        OpenPosition(actualYield, idx, today.date, -1)),
                   trades |-> Append(st.trades, OpenTrade(today.date, tenor, "SELL", actualYield))]
             ELSE st
        ELSE LET existingPos == st.positions[tenor]
                 isLong == existingPos.direction = 1
             IN  IF (isLong /\ NLt(zScore, 0)) \/ (~isLong /\ NGt(zScore, 0))
                 THEN [positions |-> MapDelete(st.positions, tenor),
                       trades |-> Append(st.trades,
                                         CloseTrade(existingPos, tenor, today, actualYield, idx))]
                 ELSE st

RECURSIVE TenorLoop(_, _, _, _, _, _, _)
TenorLoop(st, tIdx, tnrs, z, today, idx, threshold) ==
    IF tIdx > Len(tnrs) THEN st
    ELSE Pick({TenorLoop(next, tIdx + 1, tnrs, z, today, idx, threshold) :
               next \in {TradeLogic(st, tnrs[tIdx], z[tnrs[tIdx]], today, idx, threshold)}})

\* A window that runs through today: data.slice(i - windowSize + 1, i + 1)
WindowOfThroughToday(d, idx, wSize) == SubSeq(d, idx - wSize + 2, idx + 1)

\* data.slice(i - windowSize, i)
WindowOf(d, idx, wSize) == SubSeq(d, idx - wSize + 1, idx)

\* A guard that lets a series of exactly windowSize observations through.
StartWithoutSimulatedDay ==
    /\ pc = "start"
    /\ IF Len(data) < windowSize
       THEN /\ pc' = "NotEnoughData"
            /\ UNCHANGED <<i, trades, equityCurve, dates>>
       ELSE /\ pc' = "loop"
            /\ i' = windowSize
            /\ trades' = <<>>
            /\ equityCurve' = <<0>>
            /\ dates' = <<data[windowSize].date>>
    /\ UNCHANGED <<inputs, activePositions, pca, zScores, dailyMarks, result>>

\* An initial state whose first date is the date of the first simulated day.
StartDatedAtFirstDay ==
    /\ pc = "start"
    /\ IF Len(data) < windowSize + 1
       THEN /\ pc' = "NotEnoughData"
            /\ UNCHANGED <<i, trades, equityCurve, dates>>
       ELSE /\ pc' = "loop"
            /\ i' = windowSize
            /\ trades' = <<>>
            /\ equityCurve' = <<0>>
            /\ dates' = <<data[windowSize + 1].date>>
    /\ UNCHANGED <<inputs, activePositions, pca, zScores, dailyMarks, result>>

\* The guard and the initial state (lines 55-72).
Start ==
    /\ pc = "start"
    /\ IF Len(data) < windowSize + 1
       THEN /\ pc' = "NotEnoughData"
            /\ UNCHANGED <<i, trades, equityCurve, dates>>
       ELSE /\ pc' = "loop"
            /\ i' = windowSize
            /\ trades' = <<>>
            /\ equityCurve' = <<0>>
            /\ dates' = <<data[windowSize].date>>
    /\ UNCHANGED <<inputs, activePositions, pca, zScores, dailyMarks, result>>

\* A day that fits and trades first and marks the positions that are open
\* after the trade logic.
DaySignalsFirst ==
    /\ pc = "loop"
    /\ i < Len(data)
    /\ \E today \in {data[i + 1]}, windowData \in {WindowOf(data, i, windowSize)} :
       \E fit \in {performPCA(windowData, tenors)} :
           /\ dates' = Append(dates, today.date)
           /\ pca' = fit
           /\ IF ReadsUndefined(fit, tenors)
              THEN /\ pc' = "TypeError"
                   /\ UNCHANGED <<i, trades, zScores, activePositions, equityCurve, dailyMarks>>
              ELSE \E zSeq \in {[k \in 1..Len(tenors) |->
                            ZScoreOf(fit, windowData, today, tenors, k, windowSize)]} :
                   LET z == [t \in {tenors[k] : k \in 1..Len(tenors)} |->
                                zSeq[CHOOSE k \in 1..Len(tenors) : tenors[k] = t]]
                       st == TenorLoop([positions |-> activePositions, trades |-> trades],
                                       1, tenors, z, today, i, zScoreThreshold)
                       marked == [t \in DOMAIN st.positions |->
                                     MarkToMarket(st.positions[t], t, today)]
                       dailyTotalPnL ==
                           NSumSeq([k \in 1..Len(tenors) |->
                               IF tenors[k] \in DOMAIN marked
                               THEN NAdd(marked[tenors[k]].price, marked[tenors[k]].carry)
                               ELSE 0])
                   IN  /\ zScores' = z
                       /\ activePositions' = [t \in DOMAIN marked |-> marked[t].pos]
                       /\ trades' = st.trades
                       /\ equityCurve' = Append(equityCurve,
                                            NAdd(equityCurve[Len(equityCurve)], dailyTotalPnL))
                       /\ dailyMarks' = Append(dailyMarks,
                              [t \in DOMAIN marked |-> [price |-> marked[t].price,
                                                        carry |-> marked[t].carry]])
                       /\ i' = i + 1
                       /\ pc' = "loop"
    /\ UNCHANGED <<inputs, result>>

\* One iteration of the day loop (lines 75-227).  Each \E binds one value
\* the iteration computes once: the marked positions, the window, the fit and
\* the z-scores.
Day ==
    /\ pc = "loop"
    /\ i < Len(data)
    /\ \E today \in {data[i + 1]}, windowData \in {WindowOf(data, i, windowSize)} :
       \E marked \in {[t \in DOMAIN activePositions |->
                          MarkToMarket(activePositions[t], t, today)]},
          fit \in {performPCA(windowData, tenors)} :
           LET dailyTotalPnL ==
                   NSumSeq([k \in 1..Len(tenors) |->
                       IF tenors[k] \in DOMAIN marked
                       THEN NAdd(marked[tenors[k]].price, marked[tenors[k]].carry)
                       ELSE 0])
           IN  /\ equityCurve' = Append(equityCurve,
                                        NAdd(equityCurve[Len(equityCurve)], dailyTotalPnL))
               /\ dates' = Append(dates, today.date)
               /\ dailyMarks' = Append(dailyMarks,
                      [t \in DOMAIN marked |-> [price |-> marked[t].price,
                                                carry |-> marked[t].carry]])
               /\ pca' = fit
               /\ IF ReadsUndefined(fit, tenors)
                  THEN /\ pc' = "TypeError"
                       /\ activePositions' = [t \in DOMAIN marked |-> marked[t].pos]
                       /\ UNCHANGED <<i, trades, zScores>>
                  ELSE \E zSeq \in {[k \in 1..Len(tenors) |->
                                ZScoreOf(fit, windowData, today, tenors, k, windowSize)]} :
                       LET z == [t \in {tenors[k] : k \in 1..Len(tenors)} |->
                                    zSeq[CHOOSE k \in 1..Len(tenors) : tenors[k] = t]]
                           st == TenorLoop([positions |-> [t \in DOMAIN marked |-> marked[t].pos],
                                            trades |-> trades],
                                           1, tenors, z, today, i, zScoreThreshold)
                       IN  /\ zScores' = z
                           /\ activePositions' = st.positions
                           /\ trades' = st.trades
                           /\ i' = i + 1
                           /\ pc' = "loop"
    /\ UNCHANGED <<inputs, result>>

NegInfinity == -2100000000

\* A drawdown measured from the first value of the curve only: the peak is
\* never moved up.
RECURSIVE MaxDrawdownFromStart(_, _, _)
MaxDrawdownFromStart(curve, k, st) ==
    IF k > Len(curve) THEN st[2]
    ELSE Pick({MaxDrawdownFromStart(curve, k + 1,
                  <<peak, IF NGt(NSub(peak, curve[k]), st[2])
                          THEN NSub(peak, curve[k]) ELSE st[2]>>) :
               peak \in {IF k = 1 THEN curve[k] ELSE st[1]}})

\* The drawdown loop (lines 235-241): st is <<peak, maxDD>>, and
\* dd = peak - val.
RECURSIVE MaxDrawdown(_, _, _)
MaxDrawdown(curve, k, st) ==
    IF k > Len(curve) THEN st[2]
    ELSE Pick({MaxDrawdown(curve, k + 1,
                  <<peak, IF NGt(NSub(peak, curve[k]), st[2])
                          THEN NSub(peak, curve[k]) ELSE st[2]>>) :
               peak \in {IF NGt(curve[k], st[1]) THEN curve[k] ELSE st[1]}})

\* A finish that writes a CLOSE record for every position still open.
FinishClosingOut ==
    /\ pc = "loop"
    /\ i >= Len(data)
    /\ LET open == SelectSeq(tenors, LAMBDA t : t \in DOMAIN activePositions)
           closed == [k \in 1..Len(open) |->
                         CloseTrade(activePositions[open[k]], open[k], data[Len(data)],
                                    Num(data[Len(data)], open[k]), Len(data) - 1)]
       IN  result' = [dates |-> dates, equityCurve |-> equityCurve,
                      trades |-> trades \o closed,
                      stats |-> [totalReturn |-> equityCurve[Len(equityCurve)],
                                 totalTrades |-> Len(trades) + Len(open)]]
    /\ pc' = "done"
    /\ UNCHANGED <<inputs, i, trades, equityCurve, dates, activePositions, pca,
                   zScores, dailyMarks>>

\* A finish whose win rate is taken over every record of the log.
FinishWinRateOverAllRecords ==
    /\ pc = "loop"
    /\ i >= Len(data)
    /\ LET closedTrades  == SelectSeq(trades, LAMBDA t : t.type = "CLOSE")
           winningTrades == SelectSeq(closedTrades, LAMBDA t : NGt(t.totalPnL, 0))
       IN  result' = [dates |-> dates, equityCurve |-> equityCurve, trades |-> trades,
                      stats |-> [totalReturn |-> equityCurve[Len(equityCurve)],
                                 maxDrawdown |-> MaxDrawdown(equityCurve, 1, <<NegInfinity, 0>>),
                                 winRate |-> IF Len(trades) > 0
                                             THEN <<Len(winningTrades), Len(trades)>>
                                             ELSE <<0, 1>>,
                                 totalTrades |-> Len(trades)]]
    /\ pc' = "done"
    /\ UNCHANGED <<inputs, i, trades, equityCurve, dates, activePositions, pca,
                   zScores, dailyMarks>>

\* The statistics and the result (lines 229-258); the Sharpe ratio is left out.
\* winRate is the pair <<wins, closed>> of the quotient, <<0, 1>> for 0.
Finish ==
    /\ pc = "loop"
    /\ i >= Len(data)
    /\ LET closedTrades  == SelectSeq(trades, LAMBDA t : t.type = "CLOSE")
           winningTrades == SelectSeq(closedTrades, LAMBDA t : NGt(t.totalPnL, 0))
       IN  result' = [dates |-> dates, equityCurve |-> equityCurve, trades |-> trades,
                      stats |-> [totalReturn |-> equityCurve[Len(equityCurve)],
                                 maxDrawdown |-> MaxDrawdown(equityCurve, 1, <<NegInfinity, 0>>),
                                 winRate |-> IF Len(closedTrades) > 0
                                             THEN <<Len(winningTrades), Len(closedTrades)>>
                                             ELSE <<0, 1>>,
                                 totalTrades |-> Len(trades)]]
    /\ pc' = "done"
    /\ UNCHANGED <<inputs, i, trades, equityCurve, dates, activePositions, pca,
                   zScores, dailyMarks>>

Next == Start \/ Day \/ Finish

Spec == Init /\ [][Next]_vars

(***************************************************************************)
(* The rolling fits, called on the same inputs                             *)
(***************************************************************************)
CallRollingPCA ==
    /\ pc = "start"
    /\ result' = performRollingPCA(data, tenors, windowSize)
    /\ pc' = "performRollingPCA"
    /\ UNCHANGED <<inputs, i, trades, equityCurve, dates, activePositions, pca,
                   zScores, dailyMarks>>

CallRollingLoadings ==
    /\ pc = "start"
    /\ result' = calculateRollingLoadings(data, tenors, windowSize)
    /\ pc' = "calculateRollingLoadings"
    /\ UNCHANGED <<inputs, i, trades, equityCurve, dates, activePositions, pca,
                   zScores, dailyMarks>>

NextRolling == CallRollingPCA \/ CallRollingLoadings

SpecRolling == Init /\ [][NextRolling]_vars
(***************************************************************************)
(* The decomposition and the sign alignment, called on matrices            *)
(***************************************************************************)
TENORS == <<"1M", "3M", "6M", "1Y", "2Y", "3Y", "5Y", "7Y", "10Y", "20Y", "30Y">>

\* Lists of loading vectors: up to four components over three tenors.
LoadingVectors == { <<1, 2, 3>>, <<-1, -2, -1>>, <<3, -1, -2>>, <<-2, 3, -2>> }

LoadingLists == UNION { [1..k -> LoadingVectors] : k \in 0..4 }

\* Symmetric matrices in FP units: 2 x 2, 3 x 3, and one as wide as TENORS.
Symmetric2 ==
    { << <<a, c>>, <<c, b>> >> : a \in {0, FP, 2 * FP}, b \in {0, FP, 2 * FP},
                                 c \in {0, FP, -FP \div 2} }

Symmetric3 ==
    { << <<d[1], o[1], o[2]>>, <<o[1], d[2], o[3]>>, <<o[2], o[3], d[3]>> >> :
        d \in [1..3 -> {FP, 2 * FP}], o \in [1..3 -> {0, FP \div 2, -FP \div 2}] }

SymmetricWide ==
    [a \in 1..Len(TENORS) |-> [b \in 1..Len(TENORS) |->
        IF a = b THEN FP + (FP \div 10) * a ELSE (FP \div 5) + (FP \div 100) * ((a * b) % 7)]]

SymmetricMatrices == Symmetric2 \cup Symmetric3 \cup {SymmetricWide, <<>>}

IsSymmetric(m) ==
    \A a \in 1..Len(m) : Len(m[a]) = Len(m) /\ \A b \in 1..Len(m) : m[a][b] = m[b][a]

\* The series the two fits of one window are made on.
RefitSeries == {d \in DataSets : Len(d) = Len(BaseRows)} \cup {<<>>}

\* The periods handed to generateInterpretation: first and last date.
Periods == {[start |-> 101, end |-> 101 + k] : k \in {0, 4}}

(***************************************************************************)
(* services/interpretationService.ts                                       *)
(***************************************************************************)
\* tenors.indexOf(t) > -1 ? tenors.indexOf(t) : fallback, as a 1-based index
IndexOr(tnrs, t, fallback) ==
    IF \E k \in 1..Len(tnrs) : tnrs[k] = t
    THEN CHOOSE k \in 1..Len(tnrs) : tnrs[k] = t /\ \A l \in 1..(k - 1) : tnrs[l] # t
    ELSE fallback

\* formatPct: isNaN(val) ? "N/A" : (val * 100).toFixed(1), in tenths of a
\* percent; a component that is not there is undefined, hence "N/A".
FormatPct(explainedVariance, k) ==
    IF k > Len(explainedVariance) THEN "N/A"
    ELSE RDiv(explainedVariance[k] * 100 * 10, FP)

\* (scores[last][k] - scores[0][k]) * direction, 0 without scores and NaN
\* for a component the scores do not have.
ScoreChange(scores, k, direction) ==
    IF Len(scores) = 0 THEN 0
    ELSE IF k > Len(scores[1]) \/ k > Len(scores[Len(scores)]) THEN NaN
    ELSE (scores[Len(scores)][k] - scores[1][k]) * direction

SlopeTrendOf(curveRegime) ==
    IF curveRegime = "Steepening" THEN "steepened"
    ELSE IF curveRegime = "Flattening" THEN "flattened"
    ELSE "stable curve shape"

\* The text from line 366 on, as the sequence of its variable parts.
Narrative(fit, dts) ==
    LET eigenvectors == fit.eigenvectors
        tnrs         == fit.tenors
        directionPC1 == IF Len(eigenvectors) >= 1 /\ Len(eigenvectors[1]) > 0
                           /\ SumSeq(eigenvectors[1]) > 0 THEN 1 ELSE -1
        levelChange  == ScoreChange(fit.scores, 1, directionPC1)
        bondTrend    == IF NGt(levelChange, FP \div 4) THEN "Bearish"
                        ELSE IF NLt(levelChange, -(FP \div 4)) THEN "Bullish"
                        ELSE "neutral"
        levelTrend   == IF NGt(levelChange, FP) THEN "risen significantly"
                        ELSE IF NGt(levelChange, FP \div 4) THEN "trended higher"
                        ELSE IF NLt(levelChange, -FP) THEN "fallen significantly"
                        ELSE IF NLt(levelChange, -(FP \div 4)) THEN "trended lower"
                        ELSE "remained relatively stable"
        idx2Y        == IndexOr(tnrs, "2Y", 1)
        idx10Y       == IndexOr(tnrs, "10Y", Len(tnrs))
        pc2Loadings  == IF Len(eigenvectors) >= 2 THEN eigenvectors[2] ELSE <<>>
        directionPC2 == IF Len(pc2Loadings) > 0
                           /\ pc2Loadings[idx10Y] - pc2Loadings[idx2Y] > 0 THEN 1 ELSE -1
        slopeChange  == ScoreChange(fit.scores, 2, directionPC2)
        curveRegime  == IF NGt(slopeChange, FP \div 2) THEN "Steepening"
                        ELSE IF NLt(slopeChange, -(FP \div 2)) THEN "Flattening"
                        ELSE "Neutral"
        slopeNote    == IF NGt(slopeChange, FP \div 5) THEN "Long-term rates outperformed"
                        ELSE IF NLt(slopeChange, -(FP \div 5)) THEN "The spread compressed"
                        ELSE ""
        strategic    == IF bondTrend = "Bearish" /\ curveRegime = "Steepening" THEN "Bear Steepener"
                        ELSE IF bondTrend = "Bearish" /\ curveRegime = "Flattening" THEN "Bear Flattener"
                        ELSE IF bondTrend = "Bullish" /\ curveRegime = "Steepening" THEN "Bull Steepener"
                        ELSE IF bondTrend = "Bullish" /\ curveRegime = "Flattening" THEN "Bull Flattener"
                        ELSE "Mixed/Range-bound"
    IN  <<"### Market Regime Analysis: ", bondTrend, curveRegime, dts.start, dts.end,
          FormatPct(fit.explainedVariance, 1), levelTrend,
          FormatPct(fit.explainedVariance, 2), SlopeTrendOf(curveRegime), slopeNote, strategic>>

\* An interpretation without the guard of lines 359-361.
generateInterpretationUnguarded(fit, dts) == Narrative(fit, dts)

\* Lines 356-455: the message for a fit without components, else the text.
generateInterpretation(fit, dts) ==
    IF Len(fit.explainedVariance) = 0
    THEN <<"Insufficient data to generate interpretation.">>
    ELSE Narrative(fit, dts)

InitMath ==
    /\ arg \in LoadingLists \cup SymmetricMatrices
    /\ data \in RefitSeries
    /\ tenors \in {Columns, <<"2Y", "10Y", "30Y">>}
    /\ windowSize = Len(data)
    /\ zScoreThreshold \in Thresholds
    /\ pc = "start"
    /\ i = 0
    /\ trades = <<>>
    /\ equityCurve = <<>>
    /\ dates = <<>>
    /\ activePositions = EmptyMap
    /\ pca = performPCA(<<>>, <<>>)
    /\ zScores = EmptyMap
    /\ dailyMarks = <<>>
    /\ result = EmptyMap

CallAlign ==
    /\ pc = "start"
    /\ result' = alignEigenvectors(arg)
    /\ pc' = "alignEigenvectors"
    /\ UNCHANGED <<inputs, i, trades, equityCurve, dates, activePositions, pca,
                   zScores, dailyMarks>>

\* alignEigenvectors on its own output.
CallAlignAgain ==
    /\ pc = "alignEigenvectors"
    /\ result' = alignEigenvectors(result)
    /\ pc' = "alignedTwice"
    /\ UNCHANGED <<inputs, i, trades, equityCurve, dates, activePositions, pca,
                   zScores, dailyMarks>>

CallJacobi ==
    /\ pc = "start"
    /\ IsSymmetric(arg)
    /\ result' = jacobiEigen(arg)
    /\ pc' = "jacobiEigen"
    /\ UNCHANGED <<inputs, i, trades, equityCurve, dates, activePositions, pca,
                   zScores, dailyMarks>>

\* performPCA on the whole series, and once more on the same series.
CallPCA ==
    /\ pc = "start"
    /\ pca' = performPCA(data, tenors)
    /\ pc' = "performPCA"
    /\ UNCHANGED <<inputs, i, trades, equityCurve, dates, activePositions, result,
                   zScores, dailyMarks>>

CallPCAAgain ==
    /\ pc = "performPCA"
    /\ result' = performPCA(data, tenors)
    /\ pc' = "fittedTwice"
    /\ UNCHANGED <<inputs, i, trades, equityCurve, dates, activePositions, pca,
                   zScores, dailyMarks>>

\* generateInterpretation on the fit performPCA returned.
CallInterpretation ==
    /\ pc = "performPCA"
    /\ \E dts \in Periods : result' = generateInterpretation(pca, dts)
    /\ pc' = "generateInterpretation"
    /\ UNCHANGED <<inputs, i, trades, equityCurve, dates, activePositions, pca,
                   zScores, dailyMarks>>

NextMath ==
    CallAlign \/ CallAlignAgain \/ CallJacobi \/ CallPCA \/ CallPCAAgain \/ CallInterpretation

SpecMath == InitMath /\ [][NextMath]_vars

(***************************************************************************)
(* utils/csvParser.ts and services/fredService.ts                          *)
(***************************************************************************)
\* parseFloat on the cell texts of the inputs below: a number is read from
\* the start of the text, after leading blanks; NaN when there is none.
ParseFloat(s) ==
    CASE s = "1" -> 1  [] s = " 2" -> 2  [] s = "2" -> 2  [] s = "3x" -> 3  [] s = "4" -> 4
      [] OTHER -> NaN

\* String.prototype.trim on those texts.
Trim(s) == CASE s = " 2" -> "2"  [] s = " 2Y " -> "2Y"  [] OTHER -> s

\* normalizeHeader(h) (lines 12-17): upper case, blanks removed, MO to M,
\* YR to Y, YEAR to Y, each replaced once.
normalizeHeader(h) ==
    CASE h = "Date" -> "DATE"  [] h = "date" -> "DATE"  [] h = "2 Yr" -> "2Y"
      [] h = "10 Year" -> "10Y"  [] h = "3 Mo" -> "3M"  [] h = "Foo" -> "FOO"
      [] OTHER -> h

\* new Date(text).getTime(), in days.
DateTime(d) == CASE d = "2023-10-01" -> 1  [] d = "2023-10-02" -> 2  [] d = "2023-10-03" -> 3

\* Array.prototype.sort by date ascending: stable.
SortByDate(points) ==
    LET n == Len(points)
        rank(a) == 1 + Cardinality({b \in 1..n :
                        \/ DateTime(points[b].date) < DateTime(points[a].date)
                        \/ (DateTime(points[b].date) = DateTime(points[a].date) /\ b < a)})
    IN  [k \in 1..n |-> points[CHOOSE a \in 1..n : rank(a) = k]]

TenorsIn(list) == {list[k] : k \in 1..Len(list)}

\* Lines 40-75 for one line of the file: the point, or no point for a line
\* that is too short or has a cell that is empty, N/A or not a number.
PointOf(values, headers, dateIndex, headerIndexMap, foundTenors) ==
    IF Len(values) < Len(headers) THEN [rowIsValid |-> FALSE]
    ELSE LET valStr(t) == Trim(values[headerIndexMap[t]])
             bad(t) == valStr(t) \in {"", "N/A"} \/ IsNaN(ParseFloat(valStr(t)))
         IN  IF \E t \in TenorsIn(foundTenors) : bad(t) THEN [rowIsValid |-> FALSE]
             ELSE [rowIsValid |-> TRUE,
                   point |-> [date |-> Trim(values[dateIndex]),
                              y |-> [t \in TenorsIn(foundTenors) |-> ParseFloat(valStr(t))]]]

\* parseCSV on the non-blank lines of the file, each split at its commas.
parseCSV(lines) ==
    IF Len(lines) < 2
    THEN [error |-> "CSV must have a header row and data rows."]
    ELSE LET headers == [k \in 1..Len(lines[1]) |-> normalizeHeader(Trim(lines[1][k]))]
             found(name) == {k \in 1..Len(headers) : headers[k] = name}
             last(S) == CHOOSE k \in S : \A l \in S : l <= k
             foundTenors == SelectSeq(TENORS, LAMBDA t : found(t) # {})
             headerIndexMap == [t \in TenorsIn(foundTenors) |-> last(found(t))]
         IN  IF found("DATE") = {} THEN [error |-> "CSV must contain a 'Date' column."]
             ELSE IF Len(foundTenors) < 3
             THEN [error |-> "CSV must contain at least 3 valid tenor columns"]
             ELSE LET rows == [k \in 1..(Len(lines) - 1) |->
                                  PointOf(lines[k + 1], headers, last(found("DATE")),
                                          headerIndexMap, foundTenors)]
                      valid == SelectSeq(rows, LAMBDA r : r.rowIsValid)
                      points == [k \in 1..Len(valid) |-> valid[k].point]
                  IN  IF Len(points) = 0 THEN [error |-> "No valid data rows found."]
                      ELSE [data |-> SortByDate(points), availableTenors |-> foundTenors]

\* fetchFredData on the response of each series, in the order of SERIES_MAP:
\* status is the HTTP status and observations the body's list.
fetchFredData(responses) ==
    IF \E t \in TenorsIn(TENORS) : responses[t].status \in {400, 403}
    THEN [error |-> "API Key Invalid or Bad Request"]
    ELSE LET observations(t) ==
                 IF responses[t].status = 200 THEN responses[t].observations ELSE <<>>
             numeric(t) == SelectSeq(observations(t), LAMBDA o : ~IsNaN(ParseFloat(o.value)))
             datesOf(t) == {numeric(t)[k].date : k \in 1..Len(numeric(t))}
             dateMap == [d \in UNION {datesOf(t) : t \in TenorsIn(TENORS)} |->
                            [date |-> d,
                             y |-> [t \in {u \in TenorsIn(TENORS) : d \in datesOf(u)} |->
                                      ParseFloat(numeric(t)[CHOOSE k \in 1..Len(numeric(t)) :
                                          /\ numeric(t)[k].date = d
                                          /\ \A l \in (k + 1)..Len(numeric(t)) :
                                                 numeric(t)[l].date # d].value)]]]
             availableTenors == SelectSeq(TENORS, LAMBDA t : Len(observations(t)) > 0)
             kept == {d \in DOMAIN dateMap :
                          Cardinality(TenorsIn(availableTenors) \cap DOMAIN dateMap[d].y) >= 3}
             sorted == [k \in 1..Cardinality(kept) |->
                           dateMap[CHOOSE d \in kept :
                               Cardinality({e \in kept : DateTime(e) < DateTime(d)}) = k - 1]]
         IN  IF Len(sorted) = 0
             THEN [error |-> IF Len(availableTenors) = 0
                             THEN "Connection successful but no data returned."
                             ELSE "No overlapping data found for the selected range."]
             ELSE [data |-> sorted, availableTenors |-> availableTenors]

\* Files: a header of a date and three tenors with two lines of cells, and
\* files without lines, without a date column, with too few tenors, with a
\* column that is no tenor, and with a line that is too short.
CsvCells == {"1", " 2", "N/A", "abc"}

CsvDates == {"2023-10-01", "2023-10-02"}

CsvLines == {<<d>> \o c : d \in CsvDates, c \in [1..3 -> CsvCells]}

CsvFiles ==
    { <<<<"Date", "2 Yr", "10 Year", "30Y">>>> \o rows : rows \in [1..2 -> CsvLines] }
    \cup { <<<<"Date", "2Y", "10Y", "30Y">>>>,
           <<<<"2Y", "10Y", "30Y">>, <<"1", "1", "1">>>>,
           <<<<"Date", "2Y", "10Y">>, <<"2023-10-01", "1", "1">>>>,
           <<<<"date", " 2Y ", "Foo", "10Y", "30Y", "3 Mo">>,
             <<"2023-10-02", "3x", "", "1", "4", "2">>,
             <<"2023-10-01", "1", "abc", "1", "4", "2">>,
             <<"2023-10-03", "1", "1", "1">>>> }

\* Responses: the four shortest series answer; each of the other seven fails
\* with a server error.  A series has, for each of two dates, no
\* observation, the missing-value mark "." or a value; or it fails.
FredCells == {"none", ".", "4"}

SeriesOf(cells) ==
    [status |-> 200,
     observations |->
        SelectSeq([k \in 1..2 |-> [date |-> IF k = 1 THEN "2023-10-01" ELSE "2023-10-02",
                                   value |-> cells[k]]],
                  LAMBDA o : o.value # "none")]

FredSeries ==
    {SeriesOf(cells) : cells \in [1..2 -> FredCells]}
    \cup {[status |-> 500, observations |-> <<>>], [status |-> 403, observations |-> <<>>]}

FredResponses ==
    { [t \in TenorsIn(TENORS) |->
          IF t = "1M" THEN r[1] ELSE IF t = "3M" THEN r[2] ELSE IF t = "6M" THEN r[3]
          ELSE IF t = "1Y" THEN SeriesOf(<<"4", "4">>)
          ELSE [status |-> 500, observations |-> <<>>]] :
      r \in [1..3 -> FredSeries] }

InitIngest ==
    /\ arg \in CsvFiles \cup FredResponses
    /\ data = <<>>
    /\ tenors = TENORS
    /\ windowSize = 0
    /\ zScoreThreshold \in Thresholds
    /\ pc = "start"
    /\ i = 0
    /\ trades = <<>>
    /\ equityCurve = <<>>
    /\ dates = <<>>
    /\ activePositions = EmptyMap
    /\ pca = performPCA(<<>>, <<>>)
    /\ zScores = EmptyMap
    /\ dailyMarks = <<>>
    /\ result = EmptyMap

\* handleNewData(newData, newTenors) after a successful import; the alert
\* after one that threw.
HandleImport(imported, name) ==
    /\ result' = imported
    /\ IF "error" \in DOMAIN imported
       THEN /\ pc' = "Error"
            /\ UNCHANGED <<data, tenors>>
       ELSE /\ pc' = name
            /\ data' = imported.data
            /\ tenors' = imported.availableTenors
    /\ UNCHANGED <<windowSize, zScoreThreshold, arg, i, trades, equityCurve, dates,
                   activePositions, pca, zScores, dailyMarks>>

\* handleFileUpload
CallParseCSV ==
    /\ pc = "start"
    /\ arg \in CsvFiles
    /\ HandleImport(parseCSV(arg), "parseCSV")

\* handleFredFetch
CallFetchFred ==
    /\ pc = "start"
    /\ arg \in FredResponses
    /\ HandleImport(fetchFredData(arg), "fetchFredData")

NextIngest == CallParseCSV \/ CallFetchFred

SpecIngest == InitIngest /\ [][NextIngest]_vars

(***************************************************************************)
(* Properties of the trade log                                             *)
(***************************************************************************)
\* The position of the observation with this date in the series.
PositionOf(date) == CHOOSE k \in 1..Len(data) : data[k].date = date

\* The record that opened the position a CLOSE record closes, and its side.
OpeningOf(close) ==
    CHOOSE n \in 1..Len(trades) :
        /\ trades[n].type \in {"BUY", "SELL"}
        /\ trades[n].tenor = close.tenor
        /\ trades[n].date = close.entryDate

SideOf(close) == IF trades[OpeningOf(close)].type = "BUY" THEN 1 ELSE -1

\* What step 1 marked for this tenor on the day of the observation at
\* position k (the first simulated day is the observation windowSize + 1).
MarkOn(k, tenor) == dailyMarks[k - windowSize][tenor]

ClosedTrades == {n \in 1..Len(trades) : trades[n].type = "CLOSE"}

\* C1: on every CLOSE record, pricePnL equals the sum of the daily price
\* marks that were added to the equity curve for that position while it was
\* held, whatever the tenor's convexity and whatever the yield path.
C1_ClosePriceIsSumOfDailyMarks ==
    \A n \in ClosedTrades :
        LET c  == trades[n]
            ke == PositionOf(c.entryDate)
            kx == PositionOf(c.exitDate)
        IN  c.pricePnL = NSumSeq([d \in 1..(kx - ke) |-> MarkOn(ke + d, c.tenor).price])

\* The records the day step appends for one tenor.
AppendedFor(tenor) ==
    SelectSeq(SubSeq(trades', Len(trades) + 1, Len(trades')), LAMBDA t : t.tenor = tenor)

\* A day step that ran its trade loop.
DayTraded == pc = "loop" /\ pc' = "loop" /\ i' = i + 1

\* C2: on a simulated day, for a tenor without an open position: a z-score
\* above the threshold opens exactly one long position with a BUY record at
\* today's yield, a z-score below minus the threshold opens exactly one short
\* position with a SELL record at today's yield, and a z-score inside the band
\* opens nothing and logs nothing.
C2_EntryRule ==
    [][DayTraded =>
        \A k \in 1..Len(tenors) :
            LET t     == tenors[k]
                z     == zScores'[t]
                today == data[i + 1]
                opens(type, side) ==
                    /\ AppendedFor(t) = << [date |-> today.date, entryDate |-> today.date,
                                            tenor |-> t, type |-> type,
                                            entryYield |-> Num(today, t)] >>
                    /\ t \in DOMAIN activePositions'
                    /\ activePositions'[t].direction = side
                    /\ activePositions'[t].entryYield = Num(today, t)
                    /\ activePositions'[t].entryDate = today.date
            IN  t \notin DOMAIN activePositions =>
                    /\ NGt(z, zScoreThreshold) => opens("BUY", 1)
                    /\ NLt(z, -zScoreThreshold) => opens("SELL", -1)
                    /\ (~IsNaN(z) /\ z <= zScoreThreshold /\ z >= -zScoreThreshold) =>
                           (AppendedFor(t) = <<>> /\ t \notin DOMAIN activePositions')
    ]_vars

\* The observation of the last simulated day.
LastDay == data[i]

TradesOn(date, tenor, type) ==
    {n \in 1..Len(trades) :
        trades[n].date = date /\ trades[n].tenor = tenor /\ trades[n].type = type}

\* The last simulated day opened a long and a short position and left a third
\* tenor, whose z-score is inside the band, without a position.
C2_Witness ==
    /\ pc = "loop" /\ i > windowSize
    /\ \E a \in DOMAIN zScores, b \in DOMAIN zScores, c \in DOMAIN zScores :
        /\ NGt(zScores[a], zScoreThreshold) /\ TradesOn(LastDay.date, a, "BUY") # {}
        /\ NLt(zScores[b], -zScoreThreshold) /\ TradesOn(LastDay.date, b, "SELL") # {}
        /\ ~IsNaN(zScores[c]) /\ Abs(zScores[c]) <= zScoreThreshold
        /\ c \notin DOMAIN activePositions
        /\ \A n \in 1..Len(trades) : ~(trades[n].tenor = c /\ trades[n].date = LastDay.date)

C4_TotalIsPricePlusAccruedCarry ==
    \A n \in ClosedTrades :
        LET c    == trades[n]
            ke   == PositionOf(c.entryDate)
            kx   == PositionOf(c.exitDate)
            side == SideOf(c)
            accrual(d) ==
                LET lastMark == Num(data[ke + d - 1], c.tenor)
                IN  IF IsNaN(lastMark) THEN NaN
                    ELSE side * ((lastMark * 10000 * PnLScale) \div (100 * 360))
        IN  /\ c.totalPnL = NAdd(c.pricePnL, c.carryPnL)
            /\ c.daysHeld = kx - ke
            /\ c.daysHeld >= 1
            /\ c.carryPnL = NSumSeq([d \in 1..c.daysHeld |-> accrual(d)])
            /\ \A d \in 1..c.daysHeld : MarkOn(ke + d, c.tenor).carry = accrual(d)

\* A position was closed after two or more days over which its yield moved,
\* so that the accruals differ from day to day.
C4_Witness ==
    \E n \in ClosedTrades :
        /\ trades[n].daysHeld >= 2
        /\ trades[n].carryPnL # 0
        /\ LET ke == PositionOf(trades[n].entryDate)
           IN  Num(data[ke], trades[n].tenor) # Num(data[ke + 1], trades[n].tenor)

OpenRecords(log) == {n \in 1..Len(log) : log[n].type \in {"BUY", "SELL"}}

CloseRecords(log) == {n \in 1..Len(log) : log[n].type = "CLOSE"}

\* C5: when the series ends, the positions still open are left open: in the
\* returned trade log the number of BUY and SELL records minus the number of
\* CLOSE records is the number of tenors holding a position after the last
\* simulated day, and each of those tenors' last record is its opening.
C5_OpenAtEndStayOpen ==
    pc = "done" =>
        /\ Cardinality(OpenRecords(result.trades)) - Cardinality(CloseRecords(result.trades))
               = Cardinality(DOMAIN activePositions)
        /\ \A t \in DOMAIN activePositions :
               \E n \in OpenRecords(result.trades) :
                   /\ result.trades[n].tenor = t
                   /\ result.trades[n].date = activePositions[t].entryDate
                   /\ \A m \in (n + 1)..Len(result.trades) : result.trades[m].tenor # t

\* The run returned with a position still open and another one closed.
C5_Witness ==
    /\ pc = "done"
    /\ DOMAIN activePositions # {}
    /\ CloseRecords(result.trades) # {}

\* The observations with the 0-based indices lo .. hi of the series.
Observations(lo, hi) == [k \in 1..(hi - lo + 1) |-> data[lo + k]]

\* C6: the fit used on the simulated day i is computed from exactly the
\* observations i - windowSize .. i - 1 (0-based); today's observation and
\* the later ones are not part of it, nor of the in-window residual standard
\* deviation behind the day's z-scores.
C6_FitUsesTrailingWindow ==
    [][(pc = "loop" /\ i < Len(data)) =>
          /\ pca' = performPCA(Observations(i - windowSize, i - 1), tenors)
          /\ pc' = "loop" =>
                 \A k \in 1..Len(tenors) :
                     zScores'[tenors[k]] =
                         ZScoreOf(pca', Observations(i - windowSize, i - 1), data[i + 1],
                                  tenors, k, windowSize)]_vars

\* A day was simulated with three or more tenors on a window that today's
\* observation differs from.
C6_Witness ==
    /\ pc = "loop" /\ i > windowSize
    /\ Len(tenors) >= 3
    /\ Len(pca.scores) = windowSize
    /\ pca.eigenvalues[1] > 0
    /\ data[i].y # data[i - windowSize].y

\* C7: performRollingPCA and calculateRollingLoadings called with
\* windowSize = the number of observations return exactly one entry, the
\* static fit of the whole series.
C7_FullWindowIsOneStaticFit ==
    (pc \in {"performRollingPCA", "calculateRollingLoadings"} /\ windowSize = Len(data)) =>
        /\ Len(result) = 1
        /\ pc = "calculateRollingLoadings" =>
               result[1].pc1 = OrEmpty(performPCA(data, tenors).eigenvectors, 1)

\* C8: every read of a tenor's yield treats a missing or non-numeric cell as
\* 0, so that no NaN reaches the z-scores, the P&L marks, the trade records'
\* P&L or the equity curve.
C8_NoNaNDownstream ==
    /\ \A k \in 1..Len(equityCurve) : ~IsNaN(equityCurve[k])
    /\ \A t \in DOMAIN zScores : ~IsNaN(zScores[t])
    /\ \A d \in 1..Len(dailyMarks) : \A t \in DOMAIN dailyMarks[d] :
           ~IsNaN(dailyMarks[d][t].price) /\ ~IsNaN(dailyMarks[d][t].carry)
    /\ \A n \in ClosedTrades : ~IsNaN(trades[n].totalPnL)

\* C9: with one or two tenors the backtest ends with an empty result or an
\* explicit failure, never with an uncontrolled crash.
C9_FewTenorsNoCrash ==
    Len(tenors) \in {1, 2} => pc # "TypeError"

\* C10: for windowSize >= 1, runPCABacktest fails with 'Not enough data for
\* backtest', before any date, equity value or trade is produced, exactly
\* when the series has windowSize observations or fewer.
C10_NotEnoughDataGuard ==
    (windowSize >= 1 /\ pc # "start") =>
        /\ pc = "NotEnoughData" <=> Len(data) <= windowSize
        /\ pc = "NotEnoughData" => (dates = <<>> /\ equityCurve = <<>> /\ trades = <<>>)
        /\ pc # "NotEnoughData" => (Len(dates) >= 1 /\ Len(equityCurve) = Len(dates))

\* The call failed on a series of exactly windowSize observations.
C10_Witness ==
    pc = "NotEnoughData" /\ Len(data) = windowSize /\ windowSize >= 1

(***************************************************************************)
(* Properties of the statistics                                            *)
(***************************************************************************)
\* The positions of a curve that hold a number.
NumbersOf(curve) == {k \in 1..Len(curve) : ~IsNaN(curve[k])}

\* The drops from a value of the curve to the same or a later value.
Drops(curve) ==
    {curve[jk[1]] - curve[jk[2]] :
        jk \in {x \in NumbersOf(curve) \X NumbersOf(curve) : x[1] <= x[2]}}

NonDecreasing(curve) ==
    \A j \in NumbersOf(curve), k \in NumbersOf(curve) : j <= k => curve[j] <= curve[k]

\* C11: stats.maxDrawdown is the largest peak-to-trough drop of the equity
\* curve, the maximum over j <= k of equityCurve[j] - equityCurve[k] with the
\* initial 0 included; it is never negative and it is 0 when the curve never
\* falls.
C11_MaxDrawdownIsLargestDrop ==
    pc = "done" =>
        /\ result.stats.maxDrawdown \in Drops(result.equityCurve)
        /\ \A d \in Drops(result.equityCurve) : d <= result.stats.maxDrawdown
        /\ result.stats.maxDrawdown >= 0
        /\ NonDecreasing(result.equityCurve) => result.stats.maxDrawdown = 0

\* The run returned a curve whose largest drop starts at a peak above the
\* initial 0, and is larger than the drop from the initial 0.
C11_Witness ==
    /\ pc = "done"
    /\ result.stats.maxDrawdown > 0
    /\ \A k \in NumbersOf(result.equityCurve) :
           result.equityCurve[1] - result.equityCurve[k] < result.stats.maxDrawdown

\* C12: stats.winRate is the number of CLOSE records with totalPnL > 0 over
\* the number of CLOSE records; it lies in [0, 1], it is 0 when there is no
\* CLOSE record, and BUY and SELL records do not count.
C12_WinRateOverClosedTrades ==
    pc = "done" =>
        LET closed == CloseRecords(result.trades)
            wins   == {n \in closed : NGt(result.trades[n].totalPnL, 0)}
            rate   == result.stats.winRate
        IN  /\ closed = {} => rate[1] = 0 /\ rate[2] = 1
            /\ closed # {} => rate = <<Cardinality(wins), Cardinality(closed)>>
            /\ 0 <= rate[1] /\ rate[1] <= rate[2] /\ rate[2] > 0

\* The run returned a log with a winning and a losing CLOSE record and with
\* BUY or SELL records.
C12_Witness ==
    /\ pc = "done"
    /\ result.stats.winRate[1] >= 1
    /\ result.stats.winRate[1] < result.stats.winRate[2]
    /\ OpenRecords(result.trades) # {}

(***************************************************************************)
(* Properties of the sign alignment                                        *)
(***************************************************************************)
Negated(vec) == [j \in 1..Len(vec) |-> -vec[j]]

\* The three tests of a loading vector: the sum of the loadings, last minus
\* first, and twice the middle loading minus the sum of the two wings.
LevelTest(vec) == SumSeq(vec)

SlopeTest(vec) == vec[Len(vec)] - vec[1]

CurvatureTest(vec) == 2 * vec[(Len(vec) \div 2) + 1] - (vec[1] + vec[Len(vec)])

\* C13: alignEigenvectors negates component 0 exactly when the sum of its
\* loadings is negative, component 1 exactly when last minus first is
\* negative, component 2 exactly when the loading at floor(n/2) is less than
\* the average of the first and the last; the later components are returned
\* unchanged, and after alignment the three tests are non-negative.
C13_AlignmentRules ==
    pc = "alignEigenvectors" =>
        /\ Len(result) = Len(arg)
        /\ \A k \in 1..Len(arg) :
               LET test == IF k = 1 THEN LevelTest(arg[k])
                           ELSE IF k = 2 THEN SlopeTest(arg[k])
                           ELSE IF k = 3 THEN CurvatureTest(arg[k])
                           ELSE 0
               IN  /\ test < 0 => result[k] = Negated(arg[k])
                   /\ test >= 0 => result[k] = arg[k]
        /\ Len(result) >= 1 => LevelTest(result[1]) >= 0
        /\ Len(result) >= 2 => SlopeTest(result[2]) >= 0
        /\ Len(result) >= 3 => CurvatureTest(result[3]) >= 0

\* Four components were aligned: each of the first three was negated, and
\* the fourth, whose loadings sum to less than 0, was not.
C13_Witness ==
    /\ pc = "alignEigenvectors"
    /\ Len(arg) = 4
    /\ \A k \in 1..3 : result[k] = Negated(arg[k]) /\ result[k] # arg[k]
    /\ LevelTest(arg[4]) < 0 /\ result[4] = arg[4]

WindowStdDev(fit, day, k) ==
    StdDevOf(fit, Observations(day - windowSize, day - 1), tenors, k, windowSize)

C16_ExplainedVarianceSumsToOne ==
    LET total == SumSeq(pca.eigenvalues)
        n     == Len(pca.eigenvalues)
    IN  /\ Len(pca.explainedVariance) = n
        /\ total > 0 =>
               /\ 2 * Abs(SumSeq(pca.explainedVariance) - FP) <= n
               /\ \A k \in 1..n :
                      2 * Abs(pca.explainedVariance[k] * total - pca.eigenvalues[k] * FP)
                          <= total
        /\ total = 0 => \A k \in 1..n : pca.explainedVariance[k] = 0

\* A window of several observations was fitted with four components, two or
\* more of them with a share of the variance.
C16_Witness ==
    /\ pc = "loop" /\ windowSize > 1
    /\ Len(pca.eigenvalues) = 4
    /\ SumSeq(pca.eigenvalues) > 0
    /\ pca.explainedVariance[1] > 0 /\ pca.explainedVariance[1] < FP
    /\ pca.explainedVariance[2] > 0

(***************************************************************************)
(* Properties of the decomposition                                         *)
(***************************************************************************)
\* The pair (diagonal entry a of D, column a of V) the rotation loop leaves.
PairBeforeSort(fin, a) ==
    <<fin.D[a][a], [r \in 1..Len(fin.V) |-> fin.V[r][a]]>>

\* The pair (eigenvalues[k], eigenvectors[k]) of a returned decomposition.
PairReturned(eig, k) == <<eig.eigenvalues[k], eig.eigenvectors[k]>>

\* The returned pairs are the pairs before sorting, each as often as there.
SamePairs(eig, fin) ==
    /\ Len(eig.eigenvalues) = Len(fin.D)
    /\ Len(eig.eigenvectors) = Len(fin.D)
    /\ \A k \in 1..Len(fin.D) :
           Cardinality({j \in 1..Len(fin.D) : PairReturned(eig, j) = PairReturned(eig, k)})
             = Cardinality({a \in 1..Len(fin.D) : PairBeforeSort(fin, a) = PairReturned(eig, k)})

\* C17: jacobiEigen returns its eigenvalues in non-increasing order, and
\* eigenvalues and eigenvectors are permuted together: eigenvectors[k] is the
\* column of the accumulated rotation matrix that was paired with
\* eigenvalues[k] before sorting.
C17_SortedAndPairedTogether ==
    (pc = "jacobiEigen" /\ Len(arg) > 0) =>
        \E fin \in {JacobiFinal(arg)} :
            /\ \A k \in 1..(Len(arg) - 1) :
                   result.eigenvalues[k] >= result.eigenvalues[k + 1]
            /\ SamePairs(result, fin)

\* A decomposition of three tenors or more whose sort moved a column: the
\* diagonal the rotations left was not in non-increasing order.
C17_Witness ==
    /\ pc = "jacobiEigen"
    /\ Len(arg) >= 3
    /\ \E fin \in {JacobiFinal(arg)} :
           /\ fin.rotations > 0
           /\ \E a \in 1..(Len(arg) - 1) : fin.D[a][a] < fin.D[a + 1][a + 1]
           /\ result.eigenvectors[1] # [r \in 1..Len(arg) |-> fin.V[r][1]]

\* C18: jacobiEigen always terminates after at most maxIter rotations and
\* returns n eigenvalues and n eigenvectors of length n, its current estimate,
\* also when the loop ended without converging; it is defined on every
\* symmetric matrix; and it makes no rotation when the largest off-diagonal
\* magnitude of its input is already below tol.
C18_CappedAndTotal ==
    /\ (pc = "start" /\ IsSymmetric(arg)) => ENABLED CallJacobi
    /\ pc = "jacobiEigen" =>
        /\ Len(result.eigenvalues) = Len(arg)
        /\ Len(result.eigenvectors) = Len(arg)
        /\ \A k \in 1..Len(arg) : Len(result.eigenvectors[k]) = Len(arg)
        /\ Len(arg) > 0 =>
            \E fin \in {JacobiFinal(arg)} :
                /\ fin.rotations <= maxIter
                /\ SamePairs(result, fin)
                /\ (\A pq \in OffDiag(Len(arg)) : Abs(arg[pq[1]][pq[2]]) < tol) =>
                       /\ fin.rotations = 0
                       /\ fin.D = arg
                       /\ fin.V = Identity(Len(arg))

\* A decomposition that used all maxIter rotations and still has an
\* off-diagonal entry at or above tol.
C18_Witness ==
    /\ pc = "jacobiEigen"
    /\ Len(arg) = Len(TENORS)
    /\ \E fin \in {JacobiFinal(arg)} :
           /\ fin.rotations = maxIter
           /\ ~fin.done
           /\ \E pq \in OffDiag(Len(arg)) : Abs(fin.D[pq[1]][pq[2]]) >= tol
    /\ Len(result.eigenvalues) = Len(TENORS)

\* The inner product of two loading vectors, in units of 1 / (FP * FP).
Dot(u, v) == SumSeq([j \in 1..Len(u) |-> u[j] * v[j]])

\* The tolerance of the fixed-point arithmetic on an inner product: two
\* percent of the square of a unit vector.
OrthoTolerance == (FP * FP) \div 50

Orthonormal(vectors) ==
    \A k \in 1..Len(vectors) : \A l \in 1..Len(vectors) :
        IF k = l THEN Abs(Dot(vectors[k], vectors[k]) - FP * FP) <= OrthoTolerance
        ELSE Abs(Dot(vectors[k], vectors[l])) <= OrthoTolerance

\* C19: the eigenvectors jacobiEigen returns, and those of a PCAResult after
\* the sign alignment, are unit-norm and pairwise orthogonal within the
\* tolerance of the arithmetic.
C19_EigenvectorsOrthonormal ==
    /\ pc = "jacobiEigen" => Orthonormal(result.eigenvectors)
    /\ pc = "performPCA" => Orthonormal(pca.eigenvectors)

\* A decomposition of three tenors or more that took several rotations and
\* returns no unit vector of the identity.
C19_Witness ==
    /\ pc = "jacobiEigen"
    /\ Len(arg) >= 3
    /\ \E fin \in {JacobiFinal(arg)} : fin.rotations >= 3
    /\ \A k \in 1..Len(arg) : \A j \in 1..Len(arg) : result.eigenvectors[k][j] # FP

(***************************************************************************)
(* Properties of the scores                                                *)
(***************************************************************************)
\* The centered rows of a window (lines 128-138).
CenteredOf(window) ==
    centerData(SafeMatrix(window, tenors), computeMeanVector(SafeMatrix(window, tenors)))

\* Sum over k of scores[r][k] * eigenvectors[k][j], in FP units.
Reconstructed(fit, r, j) ==
    RDiv(SumSeq([k \in 1..Len(fit.eigenvectors) |->
                    fit.scores[r][k] * fit.eigenvectors[k][j]]), FP)

\* The tolerance of the fixed-point arithmetic on a reconstructed yield: two
\* percent of one unit of yield.
RoundTripTolerance == FP \div 50

RoundTrip(fit, window) ==
    /\ Len(fit.scores) = Len(window)
    /\ \E centered \in {CenteredOf(window)} :
           \A r \in 1..Len(window) : \A j \in 1..Len(tenors) :
               Abs(Reconstructed(fit, r, j) - centered[r][j]) <= RoundTripTolerance

\* C20: with all components retained, the sum over k of scores[i][k] times
\* eigenvectors[k] reproduces the centered row i of the fitted window within
\* the tolerance of the arithmetic.
C20_ScoresRoundTrip ==
    [][(pc = "loop" /\ i < Len(data)) =>
          RoundTrip(pca', Observations(i - windowSize, i - 1))]_vars

\* A window of several observations over four tenors was fitted, and one of
\* its rows has non-zero scores on two components or more.
C20_Witness ==
    /\ pc = "loop" /\ i > windowSize
    /\ windowSize > 1
    /\ Len(tenors) = 4
    /\ Len(pca.eigenvectors) = 4
    /\ \E r \in 1..Len(pca.scores) :
           Cardinality({k \in 1..4 : pca.scores[r][k] # 0}) >= 2

(***************************************************************************)
(* Properties of the run as a whole                                        *)
(***************************************************************************)
\* s is t with records added at its end.
IsPrefix(s, t) == Len(s) <= Len(t) /\ \A n \in 1..Len(s) : t[n] = s[n]

\* C21: the trade log is append-only: after every step of a run the log is
\* the log before the step with records added at its end, so no earlier
\* record is modified, reordered or removed (a BUY or SELL record is left as
\* it is when its position is closed), and the log returned is that log.
C21_TradeLogAppendOnly ==
    [][/\ IsPrefix(trades, trades')
       /\ pc' = "done" => result'.trades = trades]_vars

\* A position was closed on the last simulated day and the record that
\* opened it is still in the log, as it was written.
C21_Witness ==
    /\ pc = "loop" /\ i > windowSize
    /\ \E n \in 1..Len(trades) :
           /\ trades[n].type = "CLOSE"
           /\ trades[n].exitDate = dates[Len(dates)]
           /\ \E m \in 1..(n - 1) :
                  /\ trades[m].type \in {"BUY", "SELL"}
                  /\ trades[m] = OpenTrade(trades[n].entryDate, trades[n].tenor,
                                           trades[m].type, trades[n].entryYield)

(***************************************************************************)
(* Properties of the empty observation list                                *)
(***************************************************************************)
\* C22: an empty observation list raises no exception: performPCA is defined
\* on it and returns a PCAResult whose sequences are all empty and whose
\* tenors are the tenors given, and generateInterpretation is defined on that
\* result and returns the "Insufficient data" message.
C22_EmptyListPassesThrough ==
    Len(data) = 0 =>
        /\ pc = "start" => ENABLED CallPCA
        /\ pc \in {"performPCA", "generateInterpretation"} =>
               /\ pca.eigenvalues = <<>> /\ pca.eigenvectors = <<>>
               /\ pca.explainedVariance = <<>> /\ pca.cumulativeVariance = <<>>
               /\ pca.scores = <<>> /\ pca.meanVector = <<>>
               /\ pca.tenors = tenors
        /\ pc = "performPCA" => ENABLED CallInterpretation
        /\ pc = "generateInterpretation" =>
               result = <<"Insufficient data to generate interpretation.">>

\* generateInterpretation has returned for the fit of an empty list.
C22_Witness ==
    /\ pc = "generateInterpretation"
    /\ Len(data) = 0
    /\ Len(tenors) > 0
    /\ Len(result) = 1

(***************************************************************************)
(* Properties of the ingestion                                             *)
(***************************************************************************)
\* C23: every observation that parseCSV and fetchFredData hand to the core
\* carries a numeric value for every tenor of the tenor list returned with
\* it.
C23_IngestedObservationsComplete ==
    pc \in {"parseCSV", "fetchFredData"} =>
        \A k \in 1..Len(data) : \A t \in TenorsIn(tenors) :
            t \in DOMAIN data[k].y /\ ~IsNaN(data[k].y[t])


(***************************************************************************)
(* Properties of the order of a day's steps                                *)
(***************************************************************************)
\* The tenors whose position was opened, and closed, on the last day.
OpenedOn(day) ==
    {trades[n].tenor : n \in {m \in 1..Len(trades) :
        trades[m].type \in {"BUY", "SELL"} /\ trades[m].date = day}}

ClosedOn(day) ==
    {trades[n].tenor : n \in {m \in 1..Len(trades) :
        trades[m].type = "CLOSE" /\ trades[m].date = day}}

\* C24: on each simulated day the positions open at the start of the day are
\* marked before that day's fit and signals.  The day's equity increment is
\* the price and carry P&L of exactly those positions: a position opened that
\* day adds nothing and starts with no carry at today's yield, and a position
\* closed that day was marked that day, its CLOSE record carrying the carry
\* accrued that day.
C24_MarkBeforeSignals ==
    [][(pc = "loop" /\ i < Len(data)) =>
          \E today \in {data[i + 1]} :
          \E marked \in {[t \in DOMAIN activePositions |->
                             MarkToMarket(activePositions[t], t, today)]} :
              /\ Len(dailyMarks') = Len(dailyMarks) + 1
              /\ DOMAIN dailyMarks'[Len(dailyMarks')] = DOMAIN activePositions
              /\ \A t \in DOMAIN activePositions :
                     dailyMarks'[Len(dailyMarks')][t] =
                         [price |-> marked[t].price, carry |-> marked[t].carry]
              /\ equityCurve'[Len(equityCurve')] =
                     NAdd(equityCurve[Len(equityCurve)],
                          NSumSeq([k \in 1..Len(tenors) |->
                              IF tenors[k] \in DOMAIN marked
                              THEN NAdd(marked[tenors[k]].price, marked[tenors[k]].carry)
                              ELSE 0]))
              /\ pc' = "loop" =>
                     /\ \A t \in DOMAIN activePositions' \ DOMAIN activePositions :
                            activePositions'[t] =
                                OpenPosition(Num(today, t), i, today.date,
                                             activePositions'[t].direction)
                     /\ \A t \in DOMAIN activePositions' \cap DOMAIN activePositions :
                            activePositions'[t] = marked[t].pos
                     /\ \A t \in DOMAIN activePositions \ DOMAIN activePositions' :
                            \E n \in (Len(trades) + 1)..Len(trades') :
                                /\ trades'[n].type = "CLOSE"
                                /\ trades'[n].tenor = t
                                /\ trades'[n].carryPnL = marked[t].pos.accumulatedCarry]_vars

\* On the last simulated day one position was opened and another, held
\* since an earlier day, was closed; the day before had moved the equity.
C24_Witness ==
    /\ pc = "loop" /\ i > windowSize + 1
    /\ OpenedOn(dates[Len(dates)]) # {}
    /\ ClosedOn(dates[Len(dates)]) # {}
    /\ equityCurve[Len(equityCurve)] # equityCurve[Len(equityCurve) - 1]
    /\ ClosedOn(dates[Len(dates)]) = DOMAIN dailyMarks[Len(dailyMarks)]
             \ DOMAIN activePositions

(***************************************************************************)
(* Properties of the position slots                                        *)
(***************************************************************************)
\* The records of one tenor, in the order of the log.
TradesOf(tenor) == SelectSeq(trades, LAMBDA t : t.tenor = tenor)

\* C25: each tenor holds at most one open position, and the records of any
\* one tenor alternate open, CLOSE, open, CLOSE, ... starting with an open
\* (BUY or SELL); every CLOSE carries the entryYield and entryDate of the
\* open just before it, and there is never a CLOSE for a tenor without an
\* open position: a tenor holds a position exactly when its last record is an
\* open, and the position is the one that record opened.
C25_OneSlotPerTenorAlternating ==
    pc \in {"loop", "done", "TypeError"} =>
        /\ DOMAIN activePositions \subseteq TenorsIn(tenors)
        /\ \A n \in 1..Len(trades) : trades[n].tenor \in TenorsIn(tenors)
        /\ \A t \in TenorsIn(tenors) :
               \E log \in {TradesOf(t)} :
                   /\ \A k \in 1..Len(log) :
                          IF k % 2 = 1 THEN log[k].type \in {"BUY", "SELL"}
                          ELSE /\ log[k].type = "CLOSE"
                               /\ log[k].entryYield = log[k - 1].entryYield
                               /\ log[k].entryDate = log[k - 1].date
                   /\ t \in DOMAIN activePositions <=> Len(log) % 2 = 1
                   /\ t \in DOMAIN activePositions =>
                          /\ activePositions[t].entryYield = log[Len(log)].entryYield
                          /\ activePositions[t].entryDate = log[Len(log)].date
                          /\ activePositions[t].direction =
                                 (IF log[Len(log)].type = "BUY" THEN 1 ELSE -1)

\* A tenor was opened, closed and opened again, while another tenor holds a
\* position.
C25_Witness ==
    /\ pc = "loop"
    /\ \E t \in TenorsIn(tenors) :
           /\ Len(TradesOf(t)) >= 3
           /\ \E u \in DOMAIN activePositions : u # t

\* C26: for each tenor at most one record is appended per simulated day, so
\* a position is never opened and closed on the same day and a tenor is
\* never closed and opened again on the same day; every CLOSE record has
\* daysHeld >= 1, daysHeld being the number of observations from its
\* entryDate to its exitDate, which is the later one.
C26_OneTradePerTenorPerDay ==
    [][(pc = "loop" /\ i < Len(data)) =>
          /\ \A t \in TenorsIn(tenors) :
                 Cardinality({n \in (Len(trades) + 1)..Len(trades') :
                                 trades'[n].tenor = t}) <= 1
          /\ \A n \in (Len(trades) + 1)..Len(trades') :
                 /\ trades'[n].date = data[i + 1].date
                 /\ trades'[n].type = "CLOSE" =>
                        /\ trades'[n].daysHeld >= 1
                        /\ trades'[n].exitDate = data[i + 1].date
                        /\ PositionOf(trades'[n].exitDate) - PositionOf(trades'[n].entryDate)
                               = trades'[n].daysHeld]_vars

\* The last day closed a position held for two days or more and appended a
\* record for another tenor as well.
C26_Witness ==
    /\ pc = "loop"
    /\ \E n \in 1..Len(trades) : \E m \in 1..Len(trades) :
           /\ trades[n].type = "CLOSE"
           /\ trades[n].daysHeld >= 2
           /\ trades[n].date = dates[Len(dates)]
           /\ trades[m].date = trades[n].date
           /\ trades[m].tenor # trades[n].tenor

(***************************************************************************)
(* Properties of the result                                                *)
(***************************************************************************)
\* C27: in the result of a run that returned, dates and equityCurve have the
\* same length, the number of observations - windowSize + 1; dates[j] is the
\* date of observation windowSize - 1 + j, in the order of the input, not
\* sorted and not de-duplicated; equityCurve[0] and equityCurve[1] are 0,
\* there being no position on the first simulated day; and stats.totalReturn
\* is the last entry of equityCurve.  (Indices from 0, as in the program.)
C27_DatesAndEquityCurve ==
    pc = "done" =>
        /\ Len(result.dates) = Len(data) - windowSize + 1
        /\ Len(result.equityCurve) = Len(result.dates)
        /\ \A j \in 0..(Len(result.dates) - 1) :
               result.dates[j + 1] = data[(windowSize - 1 + j) + 1].date
        /\ result.equityCurve[1] = 0
        /\ result.equityCurve[2] = 0
        /\ result.stats.totalReturn = result.equityCurve[Len(result.equityCurve)]

\* A run over observations whose dates are not ascending returned, with an
\* equity curve that moved.
C27_Witness ==
    /\ pc = "done"
    /\ \E k \in 1..(Len(data) - 1) : data[k].date > data[k + 1].date
    /\ Len(result.dates) >= 3
    /\ result.stats.totalReturn # 0

\* C28: when every tenor that was traded has zero convexity and no position
\* is open after the last day, stats.totalReturn, built from the daily marks,
\* equals the sum of totalPnL over all CLOSE records.
C28_ZeroConvexityTotalReturn ==
    (/\ pc = "done"
     /\ DOMAIN activePositions = {}
     /\ \A n \in 1..Len(result.trades) : ConvexityOf(result.trades[n].tenor) = 0) =>
        \E closed \in {SelectSeq(result.trades, LAMBDA t : t.type = "CLOSE")} :
            result.stats.totalReturn = NSumSeq([k \in 1..Len(closed) |-> closed[k].totalPnL])

\* A run returned in which only a tenor of zero convexity was traded: it was
\* held over two days on which its yield moved, and closed with a P&L.
C28_Witness ==
    /\ pc = "done"
    /\ DOMAIN activePositions = {}
    /\ \A n \in 1..Len(result.trades) : ConvexityOf(result.trades[n].tenor) = 0
    /\ \E n \in 1..Len(result.trades) :
           /\ result.trades[n].type = "CLOSE"
           /\ result.trades[n].daysHeld >= 2
           /\ result.trades[n].pricePnL # 0
           /\ result.trades[n].carryPnL # 0
    /\ result.stats.totalReturn # 0

(***************************************************************************)
(* Properties of the signal under a change of sign                         *)
(***************************************************************************)
\* The fit with the eigenvectors of the components in S negated, each
\* together with its column of the stored scores.
Flipped(fit, S) ==
    [fit EXCEPT
        !.eigenvectors = [k \in 1..Len(fit.eigenvectors) |->
                             IF k \in S
                             THEN [j \in 1..Len(fit.eigenvectors[k]) |-> -fit.eigenvectors[k][j]]
                             ELSE fit.eigenvectors[k]],
        !.scores = [r \in 1..Len(fit.scores) |-> [k \in 1..Len(fit.scores[r]) |->
                       IF k \in S THEN -fit.scores[r][k] ELSE fit.scores[r][k]]]]

\* C29: the residual and the z-score runPCABacktest computes for a tenor are
\* unchanged when any of the first three eigenvectors of the day's fit is
\* negated together with its stored score column; so the day's trades are
\* the same whichever sign the alignment picks.
C29_SignalIgnoresSigns ==
    [][(pc = "loop" /\ i < Len(data) /\ pc' = "loop") =>
          \E today \in {data[i + 1]}, windowData \in {WindowOf(data, i, windowSize)} :
              \A S \in SUBSET {1, 2, 3} :
                  \E other \in {Flipped(pca', S)} :
                      /\ \A k \in 1..Len(tenors) :
                             /\ ResidualOf(other, today, tenors, k)
                                    = ResidualOf(pca', today, tenors, k)
                             /\ ZScoreOf(other, windowData, today, tenors, k, windowSize)
                                    = zScores'[tenors[k]]]_vars

\* A day was simulated on a fit of four tenors whose first three components
\* and scores are not zero, with a z-score beyond the threshold and a
\* position opened on it.
C29_Witness ==
    /\ pc = "loop" /\ i > windowSize
    /\ Len(tenors) = 4 /\ windowSize > 1
    /\ \A k \in 1..3 : \E j \in 1..4 : pca.eigenvectors[k][j] # 0
    /\ \E r \in 1..Len(pca.scores) : \A k \in 1..3 : pca.scores[r][k] # 0
    /\ \E t \in TenorsIn(tenors) :
           /\ NGt(zScores[t], zScoreThreshold) \/ NLt(zScores[t], -zScoreThreshold)
           /\ t \in OpenedOn(dates[Len(dates)])

(***************************************************************************)
(* Properties of the rolling fits                                          *)
(***************************************************************************)
\* The percentages of variance of the fit of one window, in FP units.
PercentagesOf(window) ==
    Pick({[k \in 1..Len(fit.eigenvalues) |->
              IF SumSeq(fit.eigenvalues) > 0
              THEN RDiv(fit.eigenvalues[k] * 100 * FP, SumSeq(fit.eigenvalues)) ELSE 0] :
          fit \in {performPCA(window, tenors)}})

\* C30: performRollingPCA and calculateRollingLoadings return an empty
\* sequence when there are fewer observations than windowSize; otherwise one
\* entry for each index i from windowSize to len - 1, ascending, len -
\* windowSize entries in all; the entry of index i is the fit of the
\* observations i - windowSize .. i - 1 and of no other, stamped with the
\* date of observation i.
C30_RollingEntries ==
    pc \in {"performRollingPCA", "calculateRollingLoadings"} =>
        IF Len(data) < windowSize THEN result = <<>>
        ELSE /\ Len(result) = Len(data) - windowSize
             /\ \A idx \in windowSize..(Len(data) - 1) :
                    \E entry \in {result[idx - windowSize + 1]},
                       window \in {Observations(idx - windowSize, idx - 1)} :
                        /\ entry.date = data[idx + 1].date
                        /\ pc = "performRollingPCA" =>
                               \E pct \in {PercentagesOf(window)} :
                                   /\ entry.PC1 = OrZero(pct, 1)
                                   /\ entry.PC2 = OrZero(pct, 2)
                                   /\ entry.PC3 = OrZero(pct, 3)
                        /\ pc = "calculateRollingLoadings" =>
                               \E fit \in {performPCA(window, tenors)} :
                                   /\ entry.pc1 = OrEmpty(fit.eigenvectors, 1)
                                   /\ entry.pc2 = OrEmpty(fit.eigenvectors, 2)
                                   /\ entry.pc3 = OrEmpty(fit.eigenvectors, 3)

\* performRollingPCA returned three entries or more over four tenors, the
\* first and the last with different percentages.
C30_Witness ==
    /\ pc = "performRollingPCA"
    /\ Len(tenors) = 4 /\ windowSize > 1
    /\ Len(result) >= 3
    /\ result[1].PC1 # result[Len(result)].PC1
    /\ result[1].PC3 > 0
====
